---- MODULE Spec2Model ----
(***************************************************************************)
(* Model of the adaptive schema-mapping engine of info_extract:            *)
(*   - SemanticHeaderNormalizer (extract/dataframe_mapping_extract.py)     *)
(*   - SpreadsheetExtractor (extract/spreadsheet_extract.py) with the      *)
(*     mapping cache of ConfigDB (config/config_db.py)                     *)
(*   - PlaybookManager and the reflect / curate agents (ace/)              *)
(*   - Executor.run (executor.py) and the task routes (route/task.py)      *)
(*   - ProfileManager (config/profile_manager.py)                          *)
(* The specifications share the module:                                    *)
(*   SpecMatch  the header matcher applied to bounded inputs,              *)
(*   Spec       the extraction stage processing sheets one at a time,      *)
(*   SpecHash   the fingerprint of two sheets,                             *)
(*   SpecStore  operations on one shared PlaybookManager instance,         *)
(*   SpecExec   one run of the executor with its cancellation event,       *)
(*   SpecTask   progress streams and cancel requests on the task table,    *)
(*   SpecClean  ColumnUtil.advanced_clean_text applied once and twice,     *)
(*   SpecWork   distinguish_work_type on sheet names and match results,    *)
(*   SpecProgress  one progress stream with runs of any length,            *)
(*   SpecProfile   calls on the ProfileManager and its ConfigDB.            *)
(***************************************************************************)
EXTENDS Integers, Sequences, FiniteSets, TLC

(***************************************************************************)
(* Bounds of the model.                                                    *)
(***************************************************************************)
\* number of entries of the target schema (standard_headers)
NumStd == 2
\* number of synonym keys in standard_header_index besides the labels
MaxSyn == 1
\* longest list of input headers handed to normalize
MaxInputs == 3
\* similarity scores are the integers 0..MaxScore (a scaled cosine)
MaxScore == 2

\* cleaned header texts an input column can carry; two columns may carry
\* the same text after cleaning, and a cleaned header is never empty
\* (pandas names an empty header cell "Unnamed: n")
HeaderNames == {"h1", "h2"}

\* Python's None
None == "None"

Scores == 0..MaxScore

Max(a, b) == IF a >= b THEN a ELSE b

VARIABLES
  \* ---- SemanticHeaderNormalizer -------------------------------------
  standard_headers,       \* self.standard_headers: sequence of target names
  standard_header_index,  \* self.standard_header_index: key k |-> std_pos
  sim,                    \* similarity of the embedding of key k and of a header text
  input_headers,          \* argument of normalize
  min_confidence,         \* argument of normalize
  mpc,                    \* "input" before normalize was called, "done" after
  mapping,                \* result of semantic_similarity
  normalized,             \* NormalizeOutput.normalized
  unmatched               \* NormalizeOutput.unmatched

matchVars == <<standard_headers, standard_header_index, sim, input_headers,
               min_confidence, mpc, mapping, normalized, unmatched>>

VARIABLES
  \* ---- PlaybookManager (the module-level playbookManager) -----------
  files,                  \* playbook_dir: sequence number |-> content of <preffix>_<number>.txt
  count,                  \* self.count
  \* ---- ConfigDB ------------------------------------------------------
  mapping_cache,          \* table mapping_cache: rows in insertion order
  active_profile_id,      \* ConfigDB.active_profile_id
  \* ---- SpreadsheetExtractor.run / _fetch_one -------------------------
  pc,                     \* position of the extraction stage
  todo,                   \* entries of pre_results the loop has not reached yet
  sheet,                  \* the parquet read by _fetch_one
  hash_key,               \* local hash_key
  cached_sql,             \* local cached_sql
  output,                 \* result.output of the generating agent
  result_df,              \* local result_df
  tool_calls,             \* tool calls the curator agent made in this curate
  extract_results,        \* Executor.run: extract_results
  json_files,             \* <stem>.json files written to processing_dir
  trace,                  \* history: calls made while processing the current sheet
  validated,              \* history: <<fingerprint, text>> pairs that ran without error
  stored_under            \* history: <<fingerprint, text, profile id>> of every save_mapping_sql

VARIABLES
  \* ---- callers of the shared PlaybookManager --------------------------
  cpc,                    \* per caller: "idle", or "writing" inside create_playbook
  fname,                  \* per caller: sequence number of the file name it built
  fcontent,               \* per caller: content it is about to write
  last_op,                \* history: the operation that made the last step
  last_args               \* history: its arguments, and whether bullet_id named a file

VARIABLES
  \* ---- two sheets fingerprinted by _fetch_one ------------------------
  hsheet,                 \* the two parquet files, with the profile active for each
  hkey                    \* hash_key computed for each (NoKey before)

VARIABLES
  \* ---- Executor.run ----------------------------------------------------
  cancellation_event,     \* threading.Event: is_set()
  epc,                    \* position of Executor.run
  step_i,                 \* position of the for loops in the list of steps
  plan,                   \* per step: results its run yields when nothing stops it
  fails,                  \* the step whose run raises after its results (0: none)
  yielded,                \* per step: results its run has yielded so far
  run_called,             \* history: steps whose run was invoked
  source_results,         \* local source_results
  exec_results,           \* local extract_results
  dest_pre_results,       \* step.pre_results of the destination step
  events,                 \* strings the generator has yielded to its caller
  observed                \* history: where is_set() was seen true

VARIABLES
  \* ---- route/task.py -----------------------------------------------------
  tasks,                  \* request.state.tasks: task id |-> task record
  running_executors,      \* task id |-> is_set() of its cancellation event
  spc,                    \* per task: position of generate_progress_stream
  task_p,                 \* per task: local p of generate_progress_stream
  last_req,               \* history: the handler that made the last step, and its task id
  response                \* history: status code of the last response of cancel_task

VARIABLES
  \* ---- ColumnUtil.advanced_clean_text ----------------------------------
  text,                   \* the raw header
  cleaned,                \* advanced_clean_text(text)
  cleaned_again,          \* advanced_clean_text(cleaned)
  clpc                    \* "input", "once", "twice"

VARIABLES
  \* ---- DataFrameMappingExtract.distinguish_work_type ---------------------
  sheet_name,             \* argument sheet_name
  wt_normalized,          \* argument normalized
  work_type,              \* the returned select expression
  wpc                     \* "input", "done"

VARIABLES
  \* ---- ProfileManager and its ConfigDB -----------------------------------
  profile,                \* table profile: id |-> name
  info_item,              \* table info_item: id |-> row
  config_db,              \* ProfileManager.config_db: the ConfigDB instance
  _current_profile_id,    \* ProfileManager._current_profile_id
  added_under,            \* history: per info_item row, the profile active at its insertion
  pm_last                 \* history: the last call, its arguments and what it returned

profileVars == <<profile, info_item, config_db, _current_profile_id, added_under, pm_last>>
storeVars == <<files, count>>
workVars == <<sheet_name, wt_normalized, work_type, wpc>>
cleanVars == <<text, cleaned, cleaned_again, clpc>>
taskVars == <<tasks, running_executors, spc, task_p, last_req, response>>
execVars == <<cancellation_event, epc, step_i, plan, fails, yielded, run_called,
              source_results, exec_results, dest_pre_results, events, observed>>
callerVars == <<cpc, fname, fcontent, last_op, last_args>>
hashVars == <<hsheet, hkey>>
engineVars == <<mapping_cache, active_profile_id, pc, todo, sheet, hash_key, cached_sql,
                output, result_df, tool_calls, extract_results, json_files, trace,
                validated, stored_under>>

vars == <<matchVars, storeVars, callerVars, hashVars, engineVars,
         execVars,
         taskVars,
         cleanVars,
         workVars,
         profileVars>>

(***************************************************************************)
(* SemanticHeaderNormalizer                                                *)
(***************************************************************************)

\* std_to_input_sim[std_pos][inp]: the maximum over the keys of one target of
\* the similarity to input column inp, -1 when the target has no key
std_to_input_sim(index, s, headers) ==
  [std \in 1..NumStd |-> [inp \in 1..Len(headers) |->
     LET ks == {k \in 1..Len(index) : index[k] = std}
         RECURSIVE MaxOver(_)
         MaxOver(S) == IF S = {} THEN -1
                       ELSE LET k == CHOOSE x \in S : TRUE
                            IN Max(s[k][headers[inp]], MaxOver(S \ {k}))
     IN MaxOver(ks)]]

\* candidates kept when the score is at most the floor
CandidateListAtMost(m, nIn, floor) ==
  LET pairs == [i \in 1..(NumStd * nIn) |->
                  LET std == ((i - 1) \div nIn) + 1
                      inp == ((i - 1) % nIn) + 1
                  IN <<m[std][inp], std, inp>>]
  IN SelectSeq(pairs, LAMBDA c : c[1] <= floor)

\* candidates in the order of the two nested loops, kept when score >= floor
CandidateList(m, nIn, floor) ==
  LET pairs == [i \in 1..(NumStd * nIn) |->
                  LET std == ((i - 1) \div nIn) + 1
                      inp == ((i - 1) % nIn) + 1
                  IN <<m[std][inp], std, inp>>]
  IN SelectSeq(pairs, LAMBDA c : c[1] >= floor)

\* candidates left in the order of the two nested loops
Unsorted(cs) == cs

\* list.sort(key=score, reverse=True): stable, ties keep their list order
RECURSIVE SortDesc(_)
SortDesc(cs) ==
  IF cs = <<>> THEN <<>>
  ELSE LET top == CHOOSE v \in {cs[i][1] : i \in 1..Len(cs)} :
                    \A i \in 1..Len(cs) : cs[i][1] <= v
           p == CHOOSE i \in 1..Len(cs) :
                    /\ cs[i][1] = top
                    /\ \A j \in 1..(i - 1) : cs[j][1] # top
       IN <<cs[p]>> \o SortDesc(SubSeq(cs, 1, p - 1) \o SubSeq(cs, p + 1, Len(cs)))

\* the greedy pass: a candidate is skipped when its target or its input
\* column is already assigned
RECURSIVE GreedyAssign(_, _, _, _, _, _)
GreedyAssign(cs, assigned_std, assigned_input, result, std_hdrs, headers) ==
  IF cs = <<>> THEN result
  ELSE LET c == Head(cs) IN
       IF c[2] \in assigned_std \/ c[3] \in assigned_input
       THEN GreedyAssign(Tail(cs), assigned_std, assigned_input, result, std_hdrs, headers)
       ELSE GreedyAssign(Tail(cs), assigned_std \cup {c[2]}, assigned_input \cup {c[3]},
                         [result EXCEPT ![c[2]] = <<std_hdrs[c[2]], headers[c[3]], c[1]>>],
                         std_hdrs, headers)

\* the candidates the greedy pass assigns: the triples (score, std_idx,
\* inp_idx) it does not skip
RECURSIVE GreedyPairs(_, _, _)
GreedyPairs(cs, assigned_std, assigned_input) ==
  IF cs = <<>> THEN {}
  ELSE LET c == Head(cs) IN
       IF c[2] \in assigned_std \/ c[3] \in assigned_input
       THEN GreedyPairs(Tail(cs), assigned_std, assigned_input)
       ELSE {c} \cup GreedyPairs(Tail(cs), assigned_std \cup {c[2]},
                                 assigned_input \cup {c[3]})

semantic_similarity(std_hdrs, index, s, headers, floor) ==
  LET m == std_to_input_sim(index, s, headers)
      cands == SortDesc(CandidateList(m, Len(headers), floor))
      empty == [std \in 1..NumStd |-> <<std_hdrs[std], None, 0>>]
  IN GreedyAssign(cands, {}, {}, empty, std_hdrs, headers)

\* first position of the maximum confidence among positions ps (Python max)
BestPos(norm, ps) ==
  CHOOSE p \in ps :
    /\ \A q \in ps : norm[q][3] <= norm[p][3]
    /\ \A q \in ps : (q < p) => norm[q][3] < norm[p][3]

\* first loop of _contextual_reassessment: of the targets matched to the
\* same header text only the most confident keeps it
Deduplicate(norm) ==
  [pos \in 1..Len(norm) |->
     IF norm[pos][2] = None THEN norm[pos]
     ELSE LET same == {q \in 1..Len(norm) : norm[q][2] = norm[pos][2]}
          IN IF Cardinality(same) > 1 /\ pos # BestPos(norm, same)
             THEN <<norm[pos][1], None, 0>>
             ELSE norm[pos]]

\* second loop: one entry per standard header, in schema order; entries of
\* confidence 0 are dropped and replaced by the null match
Rebuild(std_hdrs, norm) ==
  [h \in 1..Len(std_hdrs) |->
     LET mine == {q \in 1..Len(norm) : norm[q][1] = std_hdrs[h] /\ norm[q][3] # 0}
     IN IF mine = {} THEN <<std_hdrs[h], None, 0>>
        ELSE norm[BestPos(norm, mine)]]

ContextualNoDedup(std_hdrs, norm) == Rebuild(std_hdrs, norm)

_contextual_reassessment(std_hdrs, norm) == Rebuild(std_hdrs, Deduplicate(norm))

\* an unmatched list that looks at the first target's match only
UnmatchedFirstTarget(headers, norm) ==
  SelectSeq(headers, LAMBDA h : norm[1][2] # h)

\* the unmatched list of normalize
Unmatched(headers, norm) ==
  SelectSeq(headers, LAMBDA h : \A q \in 1..Len(norm) : norm[q][2] # h)

(***************************************************************************)
(* PlaybookManager (ace/playbook.py)                                       *)
(***************************************************************************)
\* largest sequence number the model lets the directory hold
MaxPb == 2
\* texts a playbook entry can hold
Contents == {"x", "y"}

Ids == 1..MaxPb

MaxIdx(fs) == IF DOMAIN fs = {} THEN 0
              ELSE CHOOSE i \in DOMAIN fs : \A j \in DOMAIN fs : j <= i

\* the directories a store can be constructed on
Directories == UNION {[S -> Contents] : S \in SUBSET Ids}

\* list_playbooks: reads every file of the namespace and raises self.count
\* to the largest sequence number found
list_playbooks_count(fs, cnt) == Max(cnt, MaxIdx(fs))

\* open(fname, "w") + write: the file is created, or truncated and rewritten
WriteFile(fs, idx, content) ==
  [i \in DOMAIN fs \cup {idx} |-> IF i = idx THEN content ELSE fs[i]]

\* create_playbook: the file name is built from self.count + 1
create_playbook(fs, cnt, content) == WriteFile(fs, cnt + 1, content)

\* modify_playbook: writes <bullet_id>.txt
modify_playbook(fs, bullet_id, new_content) == WriteFile(fs, bullet_id, new_content)

\* a delete that also removes every later file
DeleteFrom(fs, bullet_id) == [i \in {j \in DOMAIN fs : j < bullet_id} |-> fs[i]]

\* delete_playbook: os.remove of <bullet_id>.txt (raises when it is missing)
delete_playbook(fs, bullet_id) == [i \in DOMAIN fs \ {bullet_id} |-> fs[i]]

(***************************************************************************)
(* Sheets, cleaning, fingerprint, execution                                *)
(***************************************************************************)
\* a header is a sequence of characters
Removed == {"\n", "\r", "(", ")", "\"", "'", " "}

\* _fix_column: the replace chain deletes these characters
_fix_column(col) == SelectSeq(col, LAMBDA c : c \notin Removed)

\* _clean_columns: every column name is replaced by its cleaned form
_clean_columns(columns) == [i \in 1..Len(columns) |-> _fix_column(columns[i])]

\* decimal digits of a natural number, as characters
DigitChar(d) == <<"0", "1", "2", "3", "4", "5", "6", "7", "8", "9">>[d + 1]

RECURSIVE Digits(_)
Digits(n) == IF n < 10 THEN <<DigitChar(n)>>
             ELSE Digits(n \div 10) \o <<DigitChar(n % 10)>>

\* pandas option display.max_seq_items: a longer Index is printed as its
\* first and last ELIDE_KEEP elements around an ellipsis
max_seq_items == 100
ELIDE_KEEP == 10

RECURSIVE JoinQuoted(_)
JoinQuoted(hs) ==
  IF hs = <<>> THEN <<>>
  ELSE <<"'">> \o Head(hs) \o <<"'">> \o
       (IF Len(hs) > 1 THEN <<",", " ">> ELSE <<>>) \o JoinQuoted(Tail(hs))

\* str(columns) of a pandas Index of strings:
\*   Index(['a', 'b'], dtype='object')
\*   Index(['c1', ..., 'c10', ... 'c92', ..., 'c101'], dtype='object', length=101)
StrIndex(columns) ==
  LET n == Len(columns) IN
  IF n > max_seq_items
  THEN LET k == IF max_seq_items \div 2 < ELIDE_KEEP THEN max_seq_items \div 2 ELSE ELIDE_KEEP
       IN <<"Index([">> \o JoinQuoted(SubSeq(columns, 1, k)) \o <<",", " ", "...", " ">>
            \o JoinQuoted(SubSeq(columns, n - k + 1, n))
            \o <<"], dtype='object'", ", length=">> \o Digits(n) \o <<")">>
  ELSE <<"Index([">> \o JoinQuoted(columns) \o <<"], dtype='object'", ")">>

\* hashlib.sha1(...).hexdigest(): a digest stands for the byte string it was
\* computed from (no two byte strings of the model collide)
sha1_hexdigest(bytes) == bytes

\* _hash_columns: sha1 of str(columns)
_hash_columns(columns) == sha1_hexdigest(StrIndex(columns))

(***************************************************************************)
(* ConfigDB.mapping_cache and the execution of a transformation            *)
(***************************************************************************)
\* raw headers of the sheets of the model
HdrA == <<"a">>
HdrB == <<"b">>
HdrParenA == <<"(", "a", ")">>

ColumnLists == {<<HdrA, HdrB>>, <<HdrB, HdrA>>, <<HdrParenA, HdrB>>}
RowKinds == {"typed", "dirty"}
Stems == {"s1", "s2"}

\* the parquet files the source stage can hand over
SheetPool == [columns : ColumnLists, rows : RowKinds, stem : Stems]

NoSheet == [columns |-> <<>>, rows |-> "typed", stem |-> "none"]

\* a transformation text: the input column it reads, and whether it casts
\* the values (a cast fails on rows that do not parse)
SqlTexts == [ref : {HdrA, <<"z">>}, cast : BOOLEAN]

\* None where a transformation text, and where a fingerprint, is expected
NoSql == [ref |-> <<>>, cast |-> FALSE]
NoKey == <<>>

\* duckdb.sql(sql).df() on the cleaned frame: raises on an unknown column
\* and on a failing cast
RunsOn(sql, columns, rows) ==
  /\ \E i \in 1..Len(columns) : columns[i] = sql.ref
  /\ sql.cast => rows = "typed"

\* a lookup that finds no row
LookupAlwaysMiss(cache, key) == {NoSql}

\* get_mapping_sql_by_hash_key: SELECT sql_code ... WHERE hash_key = ?,
\* fetchone(): the sql_code of a matching row, None when there is none
get_mapping_sql_by_hash_key(cache, key) ==
  LET hit == {i \in 1..Len(cache) : cache[i].hash_key = key}
  IN IF hit = {} THEN {NoSql} ELSE {cache[i].sql_code : i \in hit}

\* save_mapping_sql: INSERT INTO mapping_cache (hash_key, sql_code)
save_mapping_sql(cache, key, sql_code) ==
  Append(cache, [hash_key |-> key, sql_code |-> sql_code])

\* most sheets one run of the extraction stage is handed
MaxSheets == 2
\* most tool calls the curator agent makes in one curate
MaxToolCalls == 2
Profiles == {1, 2}

StoreUnused == files = <<>> /\ count = 0

\* no operation was called yet
NoArgs == [bullet_id |-> 0, content |-> "", existed |-> FALSE]

CallersUnused ==
  /\ cpc = <<>> /\ fname = <<>> /\ fcontent = <<>> /\ last_op = "none"
  /\ last_args = NoArgs

HashUnused == hsheet = <<>> /\ hkey = <<>>

EngineUnused ==
  /\ mapping_cache = <<>>
  /\ active_profile_id = 1
  /\ pc = "unused"
  /\ todo = 0
  /\ sheet = NoSheet
  /\ hash_key = NoKey
  /\ cached_sql = NoSql
  /\ output = NoSql
  /\ result_df = None
  /\ tool_calls = 0
  /\ extract_results = <<>>
  /\ json_files = {}
  /\ trace = <<>>
  /\ validated = {}
  /\ stored_under = {}

ExecUnused ==
  /\ cancellation_event = FALSE
  /\ epc = "unused"
  /\ step_i = 0
  /\ plan = <<>>
  /\ fails = 0
  /\ yielded = <<>>
  /\ run_called = {}
  /\ source_results = <<>>
  /\ exec_results = <<>>
  /\ dest_pre_results = <<>>
  /\ events = <<>>
  /\ observed = "none"

TaskUnused ==
  /\ tasks = <<>>
  /\ running_executors = <<>>
  /\ spc = <<>>
  /\ task_p = <<>>
  /\ last_req = <<"none", 0>>
  /\ response = 0

CleanUnused ==
  /\ text = <<>>
  /\ cleaned = <<>>
  /\ cleaned_again = <<>>
  /\ clpc = "unused"

WorkUnused ==
  /\ sheet_name = <<>>
  /\ wt_normalized = <<>>
  /\ work_type = "none"
  /\ wpc = "unused"

\* no call was made yet
NoCall == [op |-> "none", profile_id |-> 0, name |-> "", returned |-> 0, items |-> <<>>]

ProfileUnused ==
  /\ profile = <<>>
  /\ info_item = <<>>
  /\ config_db = [active_profile_id |-> 0]
  /\ _current_profile_id = 0
  /\ added_under = <<>>
  /\ pm_last = NoCall

MatchUnused ==
  /\ standard_headers = <<>>
  /\ standard_header_index = <<>>
  /\ sim = <<>>
  /\ input_headers = <<>>
  /\ min_confidence = 0
  /\ mpc = "unused"
  /\ mapping = <<>>
  /\ normalized = <<>>
  /\ unmatched = <<>>

\* the index built by __init__: every label is a key of its own position,
\* every synonym is a key of the position of the entry that declares it
\* (labels are distinct, and no synonym repeats a label)
Indexes ==
  {[k \in 1..(NumStd + MaxSyn) |-> IF k <= NumStd THEN k ELSE f[k - NumStd]] :
     f \in [1..MaxSyn -> 1..NumStd]}

HeaderLists == UNION {[1..n -> HeaderNames] : n \in 1..MaxInputs}

InitMatch ==
  /\ standard_headers = [i \in 1..NumStd |-> i]
  /\ standard_header_index \in Indexes
  /\ sim \in [1..(NumStd + MaxSyn) -> [HeaderNames -> Scores]]
  /\ input_headers \in HeaderLists
  /\ min_confidence \in Scores
  /\ mpc = "input"
  /\ mapping = <<>>
  /\ normalized = <<>>
  /\ unmatched = <<>>
  /\ StoreUnused
  /\ CallersUnused
  /\ HashUnused
  /\ EngineUnused
  /\ ProfileUnused
  /\ WorkUnused
  /\ CleanUnused
  /\ TaskUnused
  /\ ExecUnused

\* SemanticHeaderNormalizer.normalize
normalize ==
  /\ mpc = "input"
  /\ LET m == semantic_similarity(standard_headers, standard_header_index, sim,
                                  input_headers, min_confidence)
         n == _contextual_reassessment(standard_headers, m)
     IN /\ mapping' = m
        /\ normalized' = n
        /\ unmatched' = Unmatched(input_headers, n)
  /\ mpc' = "done"
  /\ UNCHANGED <<standard_headers, standard_header_index, sim, input_headers, min_confidence>>
  /\ UNCHANGED <<storeVars, callerVars, hashVars, engineVars, execVars, taskVars, cleanVars, workVars, profileVars>>

NextMatch == normalize

SpecMatch == InitMatch /\ [][NextMatch]_vars

(***************************************************************************)
(* The extraction stage: SpreadsheetExtractor.run and _fetch_one           *)
(***************************************************************************)
Init ==
  /\ MatchUnused
  /\ ProfileUnused
  /\ WorkUnused
  /\ CleanUnused
  /\ TaskUnused
  /\ ExecUnused
  /\ CallersUnused
  /\ HashUnused
  /\ files \in Directories
  /\ count = list_playbooks_count(files, 0)
  /\ mapping_cache = <<>>
  /\ active_profile_id = 1
  /\ pc = "idle"
  /\ todo = 0
  /\ sheet = NoSheet
  /\ hash_key = NoKey
  /\ cached_sql = NoSql
  /\ output = NoSql
  /\ result_df = None
  /\ tool_calls = 0
  /\ extract_results = <<>>
  /\ json_files = {}
  /\ trace = <<>>
  /\ validated = {}
  /\ stored_under = {}

\* the cleaned frame _fetch_one works on
raw_df == [columns |-> _clean_columns(sheet.columns), rows |-> sheet.rows]

\* a task starts: the processing directory is cleaned, the extraction step
\* is handed its pre_results (drawn one by one in NextSheet)
RunStart ==
  /\ pc \in {"idle", "raised"}
  /\ todo' \in 0..MaxSheets
  /\ active_profile_id' \in Profiles
  /\ extract_results' = <<>>
  /\ json_files' = {}
  /\ sheet' = NoSheet
  /\ trace' = <<>>
  /\ pc' = "loop"
  /\ UNCHANGED <<mapping_cache, hash_key, cached_sql, output, result_df, tool_calls>>
  /\ UNCHANGED <<validated, stored_under>>
  /\ UNCHANGED <<matchVars, storeVars, callerVars, hashVars, execVars, taskVars, cleanVars, workVars, profileVars>>

\* for sheet_pq, _ in self.pre_results: the next sheet is fetched
NextSheet ==
  /\ pc = "loop"
  /\ todo > 0
  /\ sheet' \in SheetPool
  /\ todo' = todo - 1
  /\ hash_key' = NoKey
  /\ cached_sql' = NoSql
  /\ output' = NoSql
  /\ result_df' = None
  /\ tool_calls' = 0
  /\ trace' = <<>>
  /\ pc' = "fetch"
  /\ UNCHANGED <<mapping_cache, active_profile_id, extract_results, json_files>>
  /\ UNCHANGED <<validated, stored_under>>
  /\ UNCHANGED <<matchVars, storeVars, callerVars, hashVars, execVars, taskVars, cleanVars, workVars, profileVars>>

\* pre_results is exhausted (or empty): run returns
RunEnd ==
  /\ pc = "loop"
  /\ todo = 0
  /\ pc' = "idle"
  /\ UNCHANGED <<mapping_cache, active_profile_id, todo, sheet, hash_key, cached_sql,
                 output, result_df, tool_calls, extract_results, json_files, trace>>
  /\ UNCHANGED <<validated, stored_under>>
  /\ UNCHANGED <<matchVars, storeVars, callerVars, hashVars, execVars, taskVars, cleanVars, workVars, profileVars>>

\* read_parquet, _clean_columns, _hash_columns, get_cached_mapping_sql.
\* The call hands over profile_manager.get_config_db() and the key; it is
\* modelled as get_mapping_sql_by_hash_key of that ConfigDB, which the
\* wrapper of config_utils calls (the wrapper itself declares the key only).
Lookup ==
  /\ pc = "fetch"
  /\ hash_key' = _hash_columns(raw_df.columns)
  /\ cached_sql' \in get_mapping_sql_by_hash_key(mapping_cache, hash_key')
  /\ pc' = IF cached_sql' # NoSql THEN "run_cached" ELSE "synthesize"
  /\ trace' = Append(trace, "lookup")
  /\ UNCHANGED <<mapping_cache, active_profile_id, todo, sheet, output, result_df,
                 tool_calls, extract_results, json_files>>
  /\ UNCHANGED <<validated, stored_under>>
  /\ UNCHANGED <<matchVars, storeVars, callerVars, hashVars, execVars, taskVars, cleanVars, workVars, profileVars>>

\* if cached_sql: result_df = self._run_sql(cached_sql, raw_df)
RunCachedOk ==
  /\ pc = "run_cached"
  /\ RunsOn(cached_sql, raw_df.columns, raw_df.rows)
  /\ result_df' = "df"
  /\ trace' = Append(trace, "run_cached")
  /\ pc' = "finish"
  /\ UNCHANGED <<mapping_cache, active_profile_id, todo, sheet, hash_key, cached_sql,
                 output, tool_calls, extract_results, json_files>>
  /\ validated' = validated \cup {<<_hash_columns(raw_df.columns), cached_sql>>}
  /\ UNCHANGED stored_under
  /\ UNCHANGED <<matchVars, storeVars, callerVars, hashVars, execVars, taskVars, cleanVars, workVars, profileVars>>

\* RunCachedRaise deleting the rows of the fingerprint that failed
RunCachedRaiseEvict ==
  /\ pc = "run_cached"
  /\ ~RunsOn(cached_sql, raw_df.columns, raw_df.rows)
  /\ mapping_cache' = SelectSeq(mapping_cache, LAMBDA r : r.hash_key # hash_key)
  /\ trace' = Append(trace, "run_cached")
  /\ pc' = "raised"
  /\ UNCHANGED <<active_profile_id, todo, sheet, hash_key, cached_sql,
                 output, result_df, tool_calls, extract_results, json_files, validated,
                 stored_under>>
  /\ UNCHANGED <<matchVars, storeVars, callerVars, hashVars, execVars, taskVars, cleanVars, workVars, profileVars>>

\* the same call raising: no handler encloses it, the exception leaves
\* _fetch_one, run and Executor.run
RunCachedRaise ==
  /\ pc = "run_cached"
  /\ ~RunsOn(cached_sql, raw_df.columns, raw_df.rows)
  /\ trace' = Append(trace, "run_cached")
  /\ pc' = "raised"
  /\ UNCHANGED <<mapping_cache, active_profile_id, todo, sheet, hash_key, cached_sql,
                 output, result_df, tool_calls, extract_results, json_files>>
  /\ UNCHANGED <<validated, stored_under>>
  /\ UNCHANGED <<matchVars, storeVars, callerVars, hashVars, execVars, taskVars, cleanVars, workVars, profileVars>>

\* else: result = await self.agent.run(...); the prompt is built with
\* playbookManager.list_playbooks()
Synthesize ==
  /\ pc = "synthesize"
  /\ count' = list_playbooks_count(files, count)
  /\ output' \in SqlTexts
  /\ trace' = Append(trace, "synthesize")
  /\ pc' = "run_fresh"
  /\ UNCHANGED <<mapping_cache, active_profile_id, todo, sheet, hash_key, cached_sql,
                 result_df, tool_calls, extract_results, json_files>>
  /\ UNCHANGED <<validated, stored_under>>
  /\ UNCHANGED <<matchVars, files, callerVars, hashVars, execVars, taskVars, cleanVars, workVars, profileVars>>

\* try: result_df = self._run_sql(result.output, raw_df); save_mapping_sql(...)
RunFreshOk ==
  /\ pc = "run_fresh"
  /\ RunsOn(output, raw_df.columns, raw_df.rows)
  /\ result_df' = "df"
  /\ mapping_cache' = save_mapping_sql(mapping_cache, hash_key, output)
  /\ trace' = trace \o <<"run_fresh", "save">>
  /\ pc' = "finish"
  /\ UNCHANGED <<active_profile_id, todo, sheet, hash_key, cached_sql, output,
                 tool_calls, extract_results, json_files>>
  /\ validated' = validated \cup {<<_hash_columns(raw_df.columns), output>>}
  /\ stored_under' = stored_under \cup {<<hash_key, output, active_profile_id>>}
  /\ UNCHANGED <<matchVars, storeVars, callerVars, hashVars, execVars, taskVars, cleanVars, workVars, profileVars>>

\* RunFreshRaise with save_mapping_sql called before the execution
RunFreshRaiseSaved ==
  /\ pc = "run_fresh"
  /\ ~RunsOn(output, raw_df.columns, raw_df.rows)
  /\ mapping_cache' = save_mapping_sql(mapping_cache, hash_key, output)
  /\ stored_under' = stored_under \cup {<<hash_key, output, active_profile_id>>}
  /\ trace' = Append(trace, "run_fresh")
  /\ pc' = "reflect"
  /\ UNCHANGED <<active_profile_id, todo, sheet, hash_key, cached_sql,
                 output, result_df, tool_calls, extract_results, json_files, validated>>
  /\ UNCHANGED <<matchVars, storeVars, callerVars, hashVars, execVars, taskVars, cleanVars, workVars, profileVars>>

\* except Exception as exp: the warnings are logged
RunFreshRaise ==
  /\ pc = "run_fresh"
  /\ ~RunsOn(output, raw_df.columns, raw_df.rows)
  /\ trace' = Append(trace, "run_fresh")
  /\ pc' = "reflect"
  /\ UNCHANGED <<mapping_cache, active_profile_id, todo, sheet, hash_key, cached_sql,
                 output, result_df, tool_calls, extract_results, json_files>>
  /\ UNCHANGED <<validated, stored_under>>
  /\ UNCHANGED <<matchVars, storeVars, callerVars, hashVars, execVars, taskVars, cleanVars, workVars, profileVars>>

\* Reflect with the curate call left out
ReflectSkipCurate ==
  /\ pc = "reflect"
  /\ trace' = trace \o <<"overview", "reflect">>
  /\ pc' = "finish"
  /\ UNCHANGED <<mapping_cache, active_profile_id, todo, sheet, hash_key, cached_sql,
                 output, result_df, tool_calls, extract_results, json_files, validated,
                 stored_under>>
  /\ UNCHANGED <<matchVars, storeVars, callerVars, hashVars, execVars, taskVars, cleanVars, workVars, profileVars>>

\* ref = await reflect(playbookManager, result.all_messages(), exp): the
\* prompt is built with playbookManager.overview_playbooks()
Reflect ==
  /\ pc = "reflect"
  /\ trace' = trace \o <<"overview", "reflect">>
  /\ pc' = "curate"
  /\ UNCHANGED <<mapping_cache, active_profile_id, todo, sheet, hash_key, cached_sql,
                 output, result_df, tool_calls, extract_results, json_files>>
  /\ UNCHANGED <<validated, stored_under>>
  /\ UNCHANGED <<matchVars, storeVars, callerVars, hashVars, execVars, taskVars, cleanVars, workVars, profileVars>>

\* _ = await curate(playbookManager, ref): the curator agent starts
Curate ==
  /\ pc = "curate"
  /\ trace' = Append(trace, "curate")
  /\ pc' = "curating"
  /\ UNCHANGED <<mapping_cache, active_profile_id, todo, sheet, hash_key, cached_sql,
                 output, result_df, tool_calls, extract_results, json_files>>
  /\ UNCHANGED <<validated, stored_under>>
  /\ UNCHANGED <<matchVars, storeVars, callerVars, hashVars, execVars, taskVars, cleanVars, workVars, profileVars>>

\* the agent calls the tool create_playbook
CurateCreate ==
  /\ pc = "curating"
  /\ tool_calls < MaxToolCalls
  /\ count < MaxPb
  /\ \E content \in Contents : files' = create_playbook(files, count, content)
  /\ tool_calls' = tool_calls + 1
  /\ UNCHANGED <<mapping_cache, active_profile_id, pc, todo, sheet, hash_key, cached_sql,
                 output, result_df, extract_results, json_files, trace>>
  /\ UNCHANGED <<validated, stored_under>>
  /\ UNCHANGED <<matchVars, count, callerVars, hashVars, execVars, taskVars, cleanVars, workVars, profileVars>>

\* the agent calls the tool overview_playbooks
CurateOverview ==
  /\ pc = "curating"
  /\ tool_calls < MaxToolCalls
  /\ tool_calls' = tool_calls + 1
  /\ UNCHANGED <<mapping_cache, active_profile_id, pc, todo, sheet, hash_key, cached_sql,
                 output, result_df, extract_results, json_files, trace>>
  /\ UNCHANGED <<validated, stored_under>>
  /\ UNCHANGED <<matchVars, storeVars, callerVars, hashVars, execVars, taskVars, cleanVars, workVars, profileVars>>

\* the agent calls the tool modify_playbook
CurateModify ==
  /\ pc = "curating"
  /\ tool_calls < MaxToolCalls
  /\ \E bullet_id \in Ids, content \in Contents :
       files' = modify_playbook(files, bullet_id, content)
  /\ tool_calls' = tool_calls + 1
  /\ UNCHANGED <<mapping_cache, active_profile_id, pc, todo, sheet, hash_key, cached_sql,
                 output, result_df, extract_results, json_files, trace>>
  /\ UNCHANGED <<validated, stored_under>>
  /\ UNCHANGED <<matchVars, count, callerVars, hashVars, execVars, taskVars, cleanVars, workVars, profileVars>>

\* the agent calls the tool delete_playbook on an existing file
CurateDelete ==
  /\ pc = "curating"
  /\ tool_calls < MaxToolCalls
  /\ \E bullet_id \in DOMAIN files : files' = delete_playbook(files, bullet_id)
  /\ tool_calls' = tool_calls + 1
  /\ UNCHANGED <<mapping_cache, active_profile_id, pc, todo, sheet, hash_key, cached_sql,
                 output, result_df, extract_results, json_files, trace>>
  /\ UNCHANGED <<validated, stored_under>>
  /\ UNCHANGED <<matchVars, count, callerVars, hashVars, execVars, taskVars, cleanVars, workVars, profileVars>>

\* delete_playbook on a missing file: os.remove raises FileNotFoundError,
\* which leaves the tool, agent.run, curate and the except block
CurateDeleteRaise ==
  /\ pc = "curating"
  /\ tool_calls < MaxToolCalls
  /\ \E bullet_id \in Ids : bullet_id \notin DOMAIN files
  /\ tool_calls' = tool_calls + 1
  /\ pc' = "raised"
  /\ UNCHANGED <<mapping_cache, active_profile_id, todo, sheet, hash_key, cached_sql,
                 output, result_df, extract_results, json_files, trace>>
  /\ UNCHANGED <<validated, stored_under>>
  /\ UNCHANGED <<matchVars, storeVars, callerVars, hashVars, execVars, taskVars, cleanVars, workVars, profileVars>>

\* the agent returns
CurateReturn ==
  /\ pc = "curating"
  /\ pc' = "finish"
  /\ UNCHANGED <<mapping_cache, active_profile_id, todo, sheet, hash_key, cached_sql,
                 output, result_df, tool_calls, extract_results, json_files, trace>>
  /\ UNCHANGED <<validated, stored_under>>
  /\ UNCHANGED <<matchVars, storeVars, callerVars, hashVars, execVars, taskVars, cleanVars, workVars, profileVars>>

\* result_df is None: return "", None. run tests `if res:` on the tuple,
\* which is true of every 2-tuple, and yields it; Executor.run appends it
FinishNoData ==
  /\ pc = "finish"
  /\ result_df = None
  /\ extract_results' = Append(extract_results, <<"", None>>)
  /\ trace' = Append(trace, "no_data")
  /\ pc' = "loop"
  /\ UNCHANGED <<mapping_cache, active_profile_id, todo, sheet, hash_key, cached_sql,
                 output, result_df, tool_calls, json_files>>
  /\ UNCHANGED <<validated, stored_under>>
  /\ UNCHANGED <<matchVars, storeVars, callerVars, hashVars, execVars, taskVars, cleanVars, workVars, profileVars>>

\* _fix_date, _fix_ym, to_json; return str(result_json), len(result_df)
FinishJson ==
  /\ pc = "finish"
  /\ result_df # None
  /\ json_files' = json_files \cup {sheet.stem}
  /\ extract_results' = Append(extract_results, <<sheet.stem, "len">>)
  /\ trace' = Append(trace, "to_json")
  /\ pc' = "loop"
  /\ UNCHANGED <<mapping_cache, active_profile_id, todo, sheet, hash_key, cached_sql,
                 output, result_df, tool_calls>>
  /\ UNCHANGED <<validated, stored_under>>
  /\ UNCHANGED <<matchVars, storeVars, callerVars, hashVars, execVars, taskVars, cleanVars, workVars, profileVars>>

Next ==
  \/ RunStart \/ NextSheet \/ RunEnd \/ Lookup
  \/ RunCachedOk \/ RunCachedRaise
  \/ Synthesize \/ RunFreshOk \/ RunFreshRaise
  \/ Reflect \/ Curate
  \/ CurateCreate \/ CurateOverview \/ CurateModify \/ CurateDelete \/ CurateDeleteRaise
  \/ CurateReturn
  \/ FinishNoData \/ FinishJson

Spec == Init /\ [][Next]_vars

\* the coroutine of a started task keeps running: every step of _fetch_one
\* that is enabled is eventually taken
FetchStep ==
  \/ Lookup \/ RunCachedOk \/ RunCachedRaise \/ Synthesize \/ RunFreshOk \/ RunFreshRaise
  \/ Reflect \/ Curate
  \/ CurateCreate \/ CurateOverview \/ CurateModify \/ CurateDelete \/ CurateDeleteRaise
  \/ CurateReturn
  \/ FinishNoData \/ FinishJson

FairSpec == Spec /\ WF_vars(FetchStep)

(***************************************************************************)
(* Properties                                                              *)
(***************************************************************************)
Occurs(e, t) == Cardinality({i \in 1..Len(t) : t[i] = e})

IsPrefix(a, b) == Len(a) <= Len(b) /\ SubSeq(b, 1, Len(a)) = a

\* C1: the result of normalize holds exactly one candidate per entry of the
\* target schema, in schema order, and no input header is the matched input
\* of two different targets.
C1_OneCandidatePerTarget ==
  mpc = "done" =>
    /\ Len(normalized) = Len(standard_headers)
    /\ \A h \in 1..Len(normalized) : normalized[h][1] = standard_headers[h]
    /\ \A a, b \in 1..Len(normalized) :
         (a # b /\ normalized[a][2] # None) => normalized[a][2] # normalized[b][2]

\* normalize has run on an input in which two columns carry the same text
\* and the greedy pass gave one to each of two targets
C1_Witness ==
  /\ mpc = "done"
  /\ \E a, b \in 1..Len(mapping) :
       a # b /\ mapping[a][2] # None /\ mapping[a][2] = mapping[b][2]

\* the cached transformation of the current sheet failed to execute
CachedFailed == pc = "raised" /\ trace # <<>> /\ trace[Len(trace)] = "run_cached"

\* C2: when a cached transformation fails to execute, the sheet falls
\* through to synthesis; the failure does not leave the sheet's processing.
C2_CachedFailureFallsThrough == ~CachedFailed

\* C3: when a cached transformation fails to execute, reflect has been
\* called and the playbook overview read before the sheet is reported failed.
C3_CachedFailureReflects ==
  ("run_cached" \in {trace[i] : i \in 1..Len(trace)} /\ result_df = None
     /\ pc \in {"raised", "loop", "idle"})
    => (Occurs("reflect", trace) >= 1 /\ Occurs("overview", trace) >= 1)

\* the freshly synthesized transformation of the current sheet failed
FreshFailed ==
  /\ "run_fresh" \in {trace[i] : i \in 1..Len(trace)}
  /\ "save" \notin {trace[i] : i \in 1..Len(trace)}

LoopTrace == <<"lookup", "synthesize", "run_fresh", "overview", "reflect", "curate">>

C5_RunContinues ==
  ~(/\ pc = "raised"
    /\ todo > 0
    /\ trace # <<>>
    /\ trace[Len(trace)] \in {"run_cached", "run_fresh"})

\* C26: the processing of a sheet whose transformation failed (result_df
\* is None at the end of _fetch_one) writes no JSON file and adds no entry to
\* the extraction results handed to the destination stage.
C26_FailedSheetNoOutput ==
  [][(pc = "finish" /\ result_df = None)
       => /\ json_files' = json_files
          /\ extract_results' = extract_results]_vars

\* C28: save_mapping_sql adds a row for the fingerprint of the current sheet
\* only, and only after the lookup of that fingerprint in the same sheet's
\* processing found no row; no two rows of the cache have the same
\* fingerprint; after a lookup that found a row, the sheet's processing
\* neither synthesizes nor saves.
C28_StoreAfterMiss ==
  /\ \A i, j \in 1..Len(mapping_cache) :
       i # j => mapping_cache[i].hash_key # mapping_cache[j].hash_key
  /\ Occurs("save", trace) >= 1 =>
       /\ Occurs("save", trace) = 1
       /\ IsPrefix(<<"lookup", "synthesize", "run_fresh", "save">>, trace)
       /\ cached_sql = NoSql
       /\ mapping_cache[Len(mapping_cache)] = [hash_key |-> hash_key, sql_code |-> output]
       /\ hash_key = _hash_columns(raw_df.columns)
  /\ (Occurs("lookup", trace) >= 1 /\ cached_sql # NoSql) =>
       /\ Occurs("synthesize", trace) = 0
       /\ Occurs("save", trace) = 0
       /\ \E i \in 1..Len(mapping_cache) : mapping_cache[i].hash_key = hash_key

\* a sheet was served by the row an earlier sheet of the same fingerprint
\* stored, while the cache also holds a row of another fingerprint
C28_Witness ==
  /\ trace = <<"lookup", "run_cached", "to_json">>
  /\ Len(mapping_cache) = 2
  /\ Len(extract_results) >= 1

\* C29: the row a lookup returns was stored while the profile that is
\* active for the sheet was active: a transformation saved under another
\* profile only is not the one the sheet executes from the cache.
C29_CacheHitOfActiveProfile ==
  pc = "run_cached" => <<hash_key, cached_sql, active_profile_id>> \in stored_under

\* C6: every row of the cache holds a transformation that executed without
\* error on a table of the row's fingerprint, so a lookup of a stored
\* fingerprint returns a validated transformation.
C6_StoredIsValidated ==
  \A i \in 1..Len(mapping_cache) :
    /\ <<mapping_cache[i].hash_key, mapping_cache[i].sql_code>> \in validated
    /\ \A t \in get_mapping_sql_by_hash_key(mapping_cache, mapping_cache[i].hash_key) :
         t # NoSql /\ <<mapping_cache[i].hash_key, t>> \in validated

\* two transformations were stored and the lookup of a later sheet returned
\* one of them
C6_Witness ==
  /\ pc = "run_cached"
  /\ cached_sql # NoSql
  /\ Len(mapping_cache) = 2

\* C7: the cache is append-only: every step leaves the existing rows as
\* they are.
C7_AppendOnly == [][IsPrefix(mapping_cache, mapping_cache')]_vars

\* a cached transformation failed and its row is still in the cache
C7_Witness ==
  /\ CachedFailed
  /\ \E i \in 1..Len(mapping_cache) :
       mapping_cache[i].hash_key = hash_key /\ mapping_cache[i].sql_code = cached_sql

(***************************************************************************)
(* The fingerprint of two sheets (_fetch_one up to hash_key)               *)
(***************************************************************************)
\* a sheet of n columns c1 .. cn
WideColumns(n) == [i \in 1..n |-> <<"c">> \o Digits(i)]

\* the same list with the columns at positions k and k + 1 exchanged
SwapAt(columns, k) ==
  [i \in 1..Len(columns) |->
     IF i = k THEN columns[k + 1] ELSE IF i = k + 1 THEN columns[k] ELSE columns[i]]

\* one column more than pandas prints in full
WideLen == max_seq_items + 1

HashColumnLists ==
  ColumnLists \cup {WideColumns(WideLen), SwapAt(WideColumns(WideLen), WideLen \div 2)}

HashSheets == [columns : HashColumnLists, rows : RowKinds, stem : Stems, profile : Profiles]

InitHash ==
  /\ MatchUnused
  /\ ProfileUnused
  /\ WorkUnused
  /\ CleanUnused
  /\ TaskUnused
  /\ ExecUnused
  /\ StoreUnused
  /\ CallersUnused
  /\ EngineUnused
  /\ hsheet \in [1..2 -> HashSheets]
  /\ hkey = [i \in 1..2 |-> NoKey]

\* raw_df = self._clean_columns(pd.read_parquet(...));
\* hash_key = self._hash_columns(raw_df.columns)
FetchHash(i) ==
  /\ hkey[i] = NoKey
  /\ hkey' = [hkey EXCEPT ![i] = _hash_columns(_clean_columns(hsheet[i].columns))]
  /\ UNCHANGED hsheet
  /\ UNCHANGED <<matchVars, storeVars, callerVars, engineVars, execVars, taskVars, cleanVars, workVars, profileVars>>

NextHash == \E i \in 1..2 : FetchHash(i)

SpecHash == InitHash /\ [][NextHash]_vars

\* C8: the fingerprint is a function of the ordered list of cleaned headers
\* and of nothing else: sheets with equal cleaned header lists get equal
\* fingerprints whatever their rows, name and profile, and sheets whose
\* cleaned header lists differ (a permuted list among them) get different
\* fingerprints.
C8_FingerprintOfOrderedHeaders ==
  (hkey[1] # NoKey /\ hkey[2] # NoKey) =>
     ((_clean_columns(hsheet[1].columns) = _clean_columns(hsheet[2].columns))
        <=> (hkey[1] = hkey[2]))

(***************************************************************************)
(* Callers of one shared PlaybookManager                                   *)
(***************************************************************************)
\* callers that share the module-level playbookManager
Callers == {1, 2}

InitStore ==
  /\ MatchUnused
  /\ ProfileUnused
  /\ WorkUnused
  /\ CleanUnused
  /\ TaskUnused
  /\ ExecUnused
  /\ HashUnused
  /\ EngineUnused
  /\ files \in Directories
  /\ count = list_playbooks_count(files, 0)
  /\ cpc = [p \in Callers |-> "idle"]
  /\ fname = [p \in Callers |-> 0]
  /\ fcontent = [p \in Callers |-> "x"]
  /\ last_op = "init"
  /\ last_args = NoArgs

\* create_playbook, first statement: fname is built from self.count + 1
CreateName(p) ==
  /\ cpc[p] = "idle"
  /\ count < MaxPb
  /\ \E content \in Contents : fcontent' = [fcontent EXCEPT ![p] = content]
  /\ fname' = [fname EXCEPT ![p] = count + 1]
  /\ cpc' = [cpc EXCEPT ![p] = "writing"]
  /\ last_op' = "create_name"
  /\ last_args' = NoArgs
  /\ UNCHANGED <<files, count>>
  /\ UNCHANGED <<matchVars, hashVars, engineVars, execVars, taskVars, cleanVars, workVars, profileVars>>

\* create_playbook, open(..., "w") and write
CreateWrite(p) ==
  /\ cpc[p] = "writing"
  /\ files' = WriteFile(files, fname[p], fcontent[p])
  /\ cpc' = [cpc EXCEPT ![p] = "idle"]
  /\ last_op' = "create"
  /\ last_args' = [bullet_id |-> fname[p], content |-> fcontent[p],
                   existed |-> fname[p] \in DOMAIN files]
  /\ UNCHANGED <<count, fname, fcontent>>
  /\ UNCHANGED <<matchVars, hashVars, engineVars, execVars, taskVars, cleanVars, workVars, profileVars>>

\* modify_playbook
Modify(p) ==
  /\ cpc[p] = "idle"
  /\ \E bullet_id \in Ids, content \in Contents :
       /\ files' = modify_playbook(files, bullet_id, content)
       /\ last_args' = [bullet_id |-> bullet_id, content |-> content,
                        existed |-> bullet_id \in DOMAIN files]
  /\ last_op' = "modify"
  /\ UNCHANGED <<count, cpc, fname, fcontent>>
  /\ UNCHANGED <<matchVars, hashVars, engineVars, execVars, taskVars, cleanVars, workVars, profileVars>>

\* delete_playbook of an existing file
Delete(p) ==
  /\ cpc[p] = "idle"
  /\ \E bullet_id \in DOMAIN files :
       /\ files' = delete_playbook(files, bullet_id)
       /\ last_args' = [bullet_id |-> bullet_id, content |-> "", existed |-> TRUE]
  /\ last_op' = "delete"
  /\ UNCHANGED <<count, cpc, fname, fcontent>>
  /\ UNCHANGED <<matchVars, hashVars, engineVars, execVars, taskVars, cleanVars, workVars, profileVars>>

\* delete_playbook of a missing file: os.remove raises
DeleteRaise(p) ==
  /\ cpc[p] = "idle"
  /\ \E bullet_id \in Ids :
       /\ bullet_id \notin DOMAIN files
       /\ last_args' = [bullet_id |-> bullet_id, content |-> "", existed |-> FALSE]
  /\ last_op' = "delete_raised"
  /\ UNCHANGED <<files, count, cpc, fname, fcontent>>
  /\ UNCHANGED <<matchVars, hashVars, engineVars, execVars, taskVars, cleanVars, workVars, profileVars>>

\* list_playbooks
List(p) ==
  /\ cpc[p] = "idle"
  /\ count' = list_playbooks_count(files, count)
  /\ last_op' = "list"
  /\ last_args' = NoArgs
  /\ UNCHANGED <<files, cpc, fname, fcontent>>
  /\ UNCHANGED <<matchVars, hashVars, engineVars, execVars, taskVars, cleanVars, workVars, profileVars>>

\* overview_playbooks
Overview(p) ==
  /\ cpc[p] = "idle"
  /\ last_op' = "overview"
  /\ last_args' = NoArgs
  /\ UNCHANGED <<files, count, cpc, fname, fcontent>>
  /\ UNCHANGED <<matchVars, hashVars, engineVars, execVars, taskVars, cleanVars, workVars, profileVars>>

StoreStep(p) ==
  \/ CreateName(p) \/ CreateWrite(p) \/ Modify(p) \/ Delete(p) \/ DeleteRaise(p)
  \/ List(p) \/ Overview(p)

\* one caller: the operations follow each other
NextStoreSeq == StoreStep(1)

SpecStoreSeq == InitStore /\ [][NextStoreSeq]_vars

\* several callers: the operations interleave
NextStore == \E p \in Callers : StoreStep(p)

SpecStore == InitStore /\ [][NextStore]_vars

\* C9: a create writes a sequence number that is unused: it adds exactly one
\* entry and leaves the content of every existing entry as it was.
C9_CreateUsesUnusedId ==
  [][last_op' = "create" =>
       /\ Cardinality(DOMAIN files') = Cardinality(DOMAIN files) + 1
       /\ \A i \in DOMAIN files : i \in DOMAIN files' /\ files'[i] = files[i]]_vars

\* C10: creates that run at the same time on the shared store hold pairwise
\* distinct sequence numbers, so none of them overwrites another.
C10_ConcurrentCreatesDistinct ==
  \A p, q \in Callers :
    (p # q /\ cpc[p] = "writing" /\ cpc[q] = "writing") => fname[p] # fname[q]

\* C11: modify of an existing entry replaces its content and keeps the set of
\* entries; delete of an existing entry removes that entry only; both leave
\* the content of every other entry as it was.
C11_ModifyDeleteFrame ==
  [][/\ (last_op' = "modify" /\ last_args'.existed) =>
          /\ DOMAIN files' = DOMAIN files
          /\ files'[last_args'.bullet_id] = last_args'.content
          /\ \A i \in DOMAIN files \ {last_args'.bullet_id} : files'[i] = files[i]
     /\ last_op' = "delete" =>
          /\ DOMAIN files' = DOMAIN files \ {last_args'.bullet_id}
          /\ \A i \in DOMAIN files' : files'[i] = files[i]]_vars

\* an existing entry was given a new content while another entry stands
C11_Witness ==
  /\ last_op = "modify"
  /\ last_args.existed
  /\ \E i \in DOMAIN files : i # last_args.bullet_id /\ files[i] # last_args.content

\* C12: a modify or a delete of an id that names no entry is rejected and
\* leaves the store as it was.
C12_MissingIdRejected ==
  [][(last_op' \in {"modify", "delete", "delete_raised"} /\ ~last_args'.existed) =>
       /\ files' = files
       /\ last_op' = "delete_raised"]_vars

(***************************************************************************)
(* Executor.run (executor.py)                                              *)
(***************************************************************************)
\* most results the run of one step yields
MaxUnits == 2

\* Executor.__init__: the steps of the pipeline, in the order run visits them
PipelineSteps ==
  <<[name |-> "eml_reader", stage |-> "source"],
    [name |-> "msg_reader", stage |-> "source"],
    [name |-> "excel_reader", stage |-> "source"],
    [name |-> "plain_extractor", stage |-> "extract"],
    [name |-> "spreadsheet_extractor", stage |-> "extract"],
    [name |-> "excel_exporter", stage |-> "destination"]>>

NumSteps == Len(PipelineSteps)

StepsOf(stage) == {i \in 1..NumSteps : PipelineSteps[i].stage = stage}

RECURSIVE SumTo(_, _)
SumTo(f, n) == IF n = 0 THEN 0 ELSE f[n] + SumTo(f, n - 1)

StageTotal(pl, stage) ==
  SumTo([i \in 1..NumSteps |-> IF i \in StepsOf(stage) THEN pl[i] ELSE 0], NumSteps)

\* what the steps yield: an extractor yields at most one result for each
\* source result it verifies, the exporter at most one for each extraction result
Plans ==
  {pl \in [1..NumSteps -> 0..MaxUnits] :
     /\ StageTotal(pl, "extract") <= StageTotal(pl, "source")
     /\ StageTotal(pl, "destination") <= StageTotal(pl, "extract")}

\* f"读取{result[0]}", f"提取{result[0]}", f"{result[0]}处理完成"
Progress(i) == [kind |-> "progress", stage |-> PipelineSteps[i].stage, step |-> i]

\* f"任务已取消: {name}"
Cancelled(i) == [kind |-> "cancelled", stage |-> PipelineSteps[i].stage, step |-> i]

InitExec ==
  /\ MatchUnused
  /\ ProfileUnused
  /\ WorkUnused
  /\ CleanUnused
  /\ TaskUnused
  /\ StoreUnused
  /\ CallersUnused
  /\ HashUnused
  /\ EngineUnused
  /\ cancellation_event = FALSE
  /\ epc = "idle"
  /\ step_i = 0
  /\ plan \in Plans
  /\ fails \in 0..NumSteps
  /\ yielded = [i \in 1..NumSteps |-> 0]
  /\ run_called = {}
  /\ source_results = <<>>
  /\ exec_results = <<>>
  /\ dest_pre_results = <<>>
  /\ events = <<>>
  /\ observed = "none"

\* cancellation_event.set(), by the caller of run
SetCancellation ==
  /\ ~cancellation_event
  /\ epc \in {"idle", "steps", "in_step"}
  /\ cancellation_event' = TRUE
  /\ UNCHANGED <<epc, step_i, plan, fails, yielded, run_called, source_results,
                 exec_results, dest_pre_results, events, observed>>
  /\ UNCHANGED <<matchVars, storeVars, callerVars, hashVars, engineVars, taskVars, cleanVars, workVars, profileVars>>

\* the generator is started: source_results = []
ExecutorRun ==
  /\ epc = "idle"
  /\ epc' = "steps"
  /\ step_i' = 1
  /\ UNCHANGED <<cancellation_event, plan, fails, yielded, run_called, source_results,
                 exec_results, dest_pre_results, events, observed>>
  /\ UNCHANGED <<matchVars, storeVars, callerVars, hashVars, engineVars, taskVars, cleanVars, workVars, profileVars>>

\* top of a for loop, the event is set: yield f"任务已取消: {name}"; return
StepCancelled ==
  /\ epc = "steps"
  /\ step_i <= NumSteps
  /\ cancellation_event
  /\ events' = Append(events, Cancelled(step_i))
  /\ observed' = "step"
  /\ epc' = "returned"
  /\ UNCHANGED <<cancellation_event, step_i, plan, fails, yielded, run_called,
                 source_results, exec_results, dest_pre_results>>
  /\ UNCHANGED <<matchVars, storeVars, callerVars, hashVars, engineVars, taskVars, cleanVars, workVars, profileVars>>

\* top of a for loop, the event is not set: pre_results are handed over and
\* step.run is called
StepBegin ==
  /\ epc = "steps"
  /\ step_i <= NumSteps
  /\ ~cancellation_event
  /\ run_called' = run_called \cup {step_i}
  /\ dest_pre_results' = IF PipelineSteps[step_i].stage = "destination"
                         THEN exec_results ELSE dest_pre_results
  /\ epc' = "in_step"
  /\ UNCHANGED <<cancellation_event, step_i, plan, fails, yielded, source_results,
                 exec_results, events, observed>>
  /\ UNCHANGED <<matchVars, storeVars, callerVars, hashVars, engineVars, taskVars, cleanVars, workVars, profileVars>>

\* a result that is taken from the step but neither appended nor reported
ResultDropped ==
  /\ epc = "in_step"
  /\ yielded[step_i] < plan[step_i]
  /\ ~cancellation_event
  /\ yielded' = [yielded EXCEPT ![step_i] = @ + 1]
  /\ UNCHANGED <<cancellation_event, epc, step_i, plan, fails, run_called,
                 source_results, exec_results, dest_pre_results, events, observed>>
  /\ UNCHANGED <<matchVars, storeVars, callerVars, hashVars, engineVars, taskVars, cleanVars, workVars, profileVars>>

\* async for result in step.run(...), the event is not set: the result is
\* appended to the results of its stage and a progress string is yielded
ResultTaken ==
  /\ epc = "in_step"
  /\ yielded[step_i] < plan[step_i]
  /\ ~cancellation_event
  /\ LET result == <<step_i, yielded[step_i] + 1>>
         stage == PipelineSteps[step_i].stage
     IN /\ source_results' = IF stage = "source" THEN Append(source_results, result)
                             ELSE source_results
        /\ exec_results' = IF stage = "extract" THEN Append(exec_results, result)
                           ELSE exec_results
  /\ yielded' = [yielded EXCEPT ![step_i] = @ + 1]
  /\ events' = Append(events, Progress(step_i))
  /\ UNCHANGED <<cancellation_event, epc, step_i, plan, fails, run_called,
                 dest_pre_results, observed>>
  /\ UNCHANGED <<matchVars, storeVars, callerVars, hashVars, engineVars, taskVars, cleanVars, workVars, profileVars>>

\* async for result in step.run(...), the event is set:
\* yield f"任务已取消: {name}"; return
ResultCancelled ==
  /\ epc = "in_step"
  /\ yielded[step_i] < plan[step_i]
  /\ cancellation_event
  /\ yielded' = [yielded EXCEPT ![step_i] = @ + 1]
  /\ events' = Append(events, Cancelled(step_i))
  /\ observed' = "result"
  /\ epc' = "returned"
  /\ UNCHANGED <<cancellation_event, step_i, plan, fails, run_called, source_results,
                 exec_results, dest_pre_results>>
  /\ UNCHANGED <<matchVars, storeVars, callerVars, hashVars, engineVars, taskVars, cleanVars, workVars, profileVars>>

\* the run of the step is exhausted: the for loop goes to the next step
StepEnd ==
  /\ epc = "in_step"
  /\ yielded[step_i] = plan[step_i]
  /\ fails # step_i
  /\ step_i' = step_i + 1
  /\ epc' = "steps"
  /\ UNCHANGED <<cancellation_event, plan, fails, yielded, run_called, source_results,
                 exec_results, dest_pre_results, events, observed>>
  /\ UNCHANGED <<matchVars, storeVars, callerVars, hashVars, engineVars, taskVars, cleanVars, workVars, profileVars>>

\* the run of the step raises: nothing in Executor.run catches it
StepRaise ==
  /\ epc = "in_step"
  /\ yielded[step_i] = plan[step_i]
  /\ fails = step_i
  /\ epc' = "raised"
  /\ UNCHANGED <<cancellation_event, step_i, plan, fails, yielded, run_called,
                 source_results, exec_results, dest_pre_results, events, observed>>
  /\ UNCHANGED <<matchVars, storeVars, callerVars, hashVars, engineVars, taskVars, cleanVars, workVars, profileVars>>

\* the last for loop is exhausted
ExecutorReturn ==
  /\ epc = "steps"
  /\ step_i = NumSteps + 1
  /\ epc' = "returned"
  /\ UNCHANGED <<cancellation_event, step_i, plan, fails, yielded, run_called,
                 source_results, exec_results, dest_pre_results, events, observed>>
  /\ UNCHANGED <<matchVars, storeVars, callerVars, hashVars, engineVars, taskVars, cleanVars, workVars, profileVars>>

NextExec ==
  \/ SetCancellation \/ ExecutorRun
  \/ StepCancelled \/ StepBegin
  \/ ResultTaken \/ ResultCancelled
  \/ StepEnd \/ StepRaise
  \/ ExecutorReturn

SpecExec == InitExec /\ [][NextExec]_vars

\* strings of kind progress that report a result of step i
ProgressCount(i) == Cardinality({k \in 1..Len(events) : events[k] = Progress(i)})

StageRank(stage) == CASE stage = "source" -> 1 [] stage = "extract" -> 2
                      [] stage = "destination" -> 3

\* strings the run yields when the event is never set
UncancelledEvents ==
  SumTo([i \in 1..NumSteps |-> IF fails = 0 \/ i <= fails THEN plan[i] ELSE 0], NumSteps)

\* C13: once the cancellation event is set, run yields nothing more and
\* invokes the run of no further step (so a run that starts with the event
\* set yields nothing at all).
C13_NothingAfterCancellation ==
  [][cancellation_event => (events' = events /\ run_called' = run_called)]_vars

\* C14: in a run whose steps do not raise, a cancellation observed on a result
\* in flight ends the run without an error, with fewer strings yielded than
\* the uncancelled run yields, and the result in flight is neither reported
\* as progress nor appended to the results of its stage.
C14_CancelledInFlight ==
  (observed = "result" /\ fails = 0) =>
    /\ epc = "returned"
    /\ Len(events) < UncancelledEvents
    /\ ProgressCount(step_i) = yielded[step_i] - 1
    /\ <<step_i, yielded[step_i]>> \notin
         {source_results[k] : k \in 1..Len(source_results)} \cup
         {exec_results[k] : k \in 1..Len(exec_results)}

\* progress strings come stage after stage, and the exporter is handed every
\* result of every extractor
StagesInOrder ==
  /\ \A j, k \in 1..Len(events) :
       (j < k /\ events[j].kind = "progress" /\ events[k].kind = "progress")
         => StageRank(events[j].stage) <= StageRank(events[k].stage)
  /\ \A d \in StepsOf("destination") \cap run_called :
       \A i \in StepsOf("extract") : \A k \in 1..plan[i] :
         \E n \in 1..Len(dest_pre_results) : dest_pre_results[n] = <<i, k>>

MaxTasks == 2
\* the executor yields strings to generate_progress_stream while p is below
ProgressCap == 19

TaskIds == 1..MaxTasks

\* the task object of create_task_stream
NewTask == [status |-> "pending", progress |-> 0, started_at |-> FALSE,
            completed_at |-> FALSE, error |-> FALSE]

\* f extended or overwritten at k
Put(f, k, v) == [i \in DOMAIN f \cup {k} |-> IF i = k THEN v ELSE f[i]]

\* f without k
Drop(f, k) == [i \in DOMAIN f \ {k} |-> f[i]]

InitTask ==
  /\ MatchUnused
  /\ ProfileUnused
  /\ WorkUnused
  /\ CleanUnused
  /\ StoreUnused
  /\ CallersUnused
  /\ HashUnused
  /\ EngineUnused
  /\ ExecUnused
  /\ tasks = <<>>
  /\ running_executors = <<>>
  /\ spc = <<>>
  /\ task_p = <<>>
  /\ last_req = <<"none", 0>>
  /\ response = 0

\* create_task_stream: task_id = str(uuid.uuid4()); tasks[task_id] = task
CreateTaskStream ==
  /\ \E t \in TaskIds \ DOMAIN tasks :
       /\ tasks' = Put(tasks, t, NewTask)
       /\ spc' = Put(spc, t, "new")
       /\ task_p' = Put(task_p, t, 0)
       /\ last_req' = <<"create", t>>
  /\ UNCHANGED <<running_executors, response>>
  /\ UNCHANGED <<matchVars, storeVars, callerVars, hashVars, engineVars, execVars, cleanVars, workVars, profileVars>>

\* generate_progress_stream up to the status_update: status = 'processing'
StreamProcessing(t) ==
  /\ t \in DOMAIN tasks
  /\ spc[t] = "new"
  /\ tasks' = [tasks EXCEPT ![t].status = "processing", ![t].started_at = TRUE]
  /\ spc' = [spc EXCEPT ![t] = "started"]
  /\ last_req' = <<"stream", t>>
  /\ UNCHANGED <<running_executors, task_p, response>>
  /\ UNCHANGED <<matchVars, storeVars, callerVars, hashVars, engineVars, execVars, cleanVars, workVars, profileVars>>

\* the executor is built and registered with a fresh cancellation event; p = 0
StreamRegister(t) ==
  /\ t \in DOMAIN tasks
  /\ spc[t] = "started"
  /\ running_executors' = Put(running_executors, t, FALSE)
  /\ task_p' = [task_p EXCEPT ![t] = 0]
  /\ spc' = [spc EXCEPT ![t] = "running"]
  /\ last_req' = <<"stream", t>>
  /\ UNCHANGED <<tasks, response>>
  /\ UNCHANGED <<matchVars, storeVars, callerVars, hashVars, engineVars, execVars, cleanVars, workVars, profileVars>>

\* Executor() or clean_processing_dir raises before the registration
StreamRaiseEarly(t) ==
  /\ t \in DOMAIN tasks
  /\ spc[t] = "started"
  /\ tasks' = [tasks EXCEPT ![t].status = "failed", ![t].error = TRUE,
                            ![t].completed_at = TRUE]
  /\ spc' = [spc EXCEPT ![t] = "closing"]
  /\ last_req' = <<"stream", t>>
  /\ UNCHANGED <<running_executors, task_p, response>>
  /\ UNCHANGED <<matchVars, storeVars, callerVars, hashVars, engineVars, execVars, cleanVars, workVars, profileVars>>

\* a progress step that rounds the tenth of the remainder up
NextProgressCeil(p) == p + ((100 - p + 9) \div 10)

\* p += int((100 - p) / 10)
next_progress(p) == p + ((100 - p) \div 10)

\* async for txt in executor.run(...), event not set: progress_update
StreamItem(t) ==
  /\ t \in DOMAIN tasks
  /\ spc[t] = "running"
  /\ ~running_executors[t]
  /\ task_p[t] < ProgressCap
  /\ LET np == next_progress(task_p[t])
     IN /\ task_p' = [task_p EXCEPT ![t] = np]
        /\ tasks' = [tasks EXCEPT ![t].progress = np]
  /\ last_req' = <<"stream", t>>
  /\ UNCHANGED <<running_executors, spc, response>>
  /\ UNCHANGED <<matchVars, storeVars, callerVars, hashVars, engineVars, execVars, cleanVars, workVars, profileVars>>

\* the loop ends with the event set (break on a string, or the run returned):
\* status = 'cancelled'
StreamCancelled(t) ==
  /\ t \in DOMAIN tasks
  /\ spc[t] = "running"
  /\ running_executors[t]
  /\ tasks' = [tasks EXCEPT ![t].status = "cancelled", ![t].completed_at = TRUE]
  /\ spc' = [spc EXCEPT ![t] = "closing"]
  /\ last_req' = <<"stream", t>>
  /\ UNCHANGED <<running_executors, task_p, response>>
  /\ UNCHANGED <<matchVars, storeVars, callerVars, hashVars, engineVars, execVars, cleanVars, workVars, profileVars>>

\* the run returned with the event not set: progress = 100, progress_update
StreamExhausted(t) ==
  /\ t \in DOMAIN tasks
  /\ spc[t] = "running"
  /\ ~running_executors[t]
  /\ tasks' = [tasks EXCEPT ![t].progress = 100]
  /\ spc' = [spc EXCEPT ![t] = "finishing"]
  /\ last_req' = <<"stream", t>>
  /\ UNCHANGED <<running_executors, task_p, response>>
  /\ UNCHANGED <<matchVars, storeVars, callerVars, hashVars, engineVars, execVars, cleanVars, workVars, profileVars>>

\* after the progress_update: status = 'completed', completion
StreamCompleted(t) ==
  /\ t \in DOMAIN tasks
  /\ spc[t] = "finishing"
  /\ tasks' = [tasks EXCEPT ![t].status = "completed", ![t].completed_at = TRUE,
                            ![t].progress = 100]
  /\ spc' = [spc EXCEPT ![t] = "closing"]
  /\ last_req' = <<"stream", t>>
  /\ UNCHANGED <<running_executors, task_p, response>>
  /\ UNCHANGED <<matchVars, storeVars, callerVars, hashVars, engineVars, execVars, cleanVars, workVars, profileVars>>

\* executor.run raises: except Exception sets status = 'failed'
StreamRaise(t) ==
  /\ t \in DOMAIN tasks
  /\ spc[t] = "running"
  /\ tasks' = [tasks EXCEPT ![t].status = "failed", ![t].error = TRUE,
                            ![t].completed_at = TRUE]
  /\ spc' = [spc EXCEPT ![t] = "closing"]
  /\ last_req' = <<"stream", t>>
  /\ UNCHANGED <<running_executors, task_p, response>>
  /\ UNCHANGED <<matchVars, storeVars, callerVars, hashVars, engineVars, execVars, cleanVars, workVars, profileVars>>

\* finally: del running_executors[task_id]
StreamFinally(t) ==
  /\ t \in DOMAIN tasks
  /\ spc[t] = "closing"
  /\ running_executors' = Drop(running_executors, t)
  /\ spc' = [spc EXCEPT ![t] = "closed"]
  /\ last_req' = <<"stream", t>>
  /\ UNCHANGED <<tasks, task_p, response>>
  /\ UNCHANGED <<matchVars, storeVars, callerVars, hashVars, engineVars, execVars, cleanVars, workVars, profileVars>>

\* cancel_task that answers every request with the cancelled task
CancelAlways(t) ==
  /\ last_req' = <<"cancel", t>>
  /\ response' = 200
  /\ tasks' = Put(tasks, t, [(IF t \in DOMAIN tasks THEN tasks[t] ELSE NewTask)
                              EXCEPT !.status = "cancelled", !.completed_at = TRUE])
  /\ UNCHANGED <<running_executors, spc, task_p>>
  /\ UNCHANGED <<matchVars, storeVars, callerVars, hashVars, engineVars, execVars, cleanVars, workVars, profileVars>>

\* cancel_task
cancel_task(t) ==
  /\ last_req' = <<"cancel", t>>
  /\ IF t \notin DOMAIN tasks
     THEN /\ response' = 404
          /\ UNCHANGED <<tasks, running_executors>>
     ELSE IF tasks[t].status \in {"completed", "failed"}
     THEN /\ response' = 400
          /\ UNCHANGED <<tasks, running_executors>>
     ELSE /\ response' = 200
          /\ running_executors' = IF t \in DOMAIN running_executors
                                  THEN [running_executors EXCEPT ![t] = TRUE]
                                  ELSE running_executors
          /\ tasks' = [tasks EXCEPT ![t].status = "cancelled", ![t].completed_at = TRUE]
  /\ UNCHANGED <<spc, task_p>>
  /\ UNCHANGED <<matchVars, storeVars, callerVars, hashVars, engineVars, execVars, cleanVars, workVars, profileVars>>

NextTask ==
  \/ CreateTaskStream
  \/ \E t \in TaskIds :
       \/ StreamProcessing(t) \/ StreamRegister(t) \/ StreamRaiseEarly(t)
       \/ StreamItem(t) \/ StreamCancelled(t) \/ StreamExhausted(t)
       \/ StreamCompleted(t) \/ StreamRaise(t) \/ StreamFinally(t)
       \/ cancel_task(t)

SpecTask == InitTask /\ [][NextTask]_vars

\* the same loop step for a run of any length: the executor yields one more
\* string whatever p is
StreamItemAny(t) ==
  /\ t \in DOMAIN tasks
  /\ spc[t] = "running"
  /\ ~running_executors[t]
  /\ LET np == next_progress(task_p[t])
     IN /\ task_p' = [task_p EXCEPT ![t] = np]
        /\ tasks' = [tasks EXCEPT ![t].progress = np]
  /\ last_req' = <<"stream", t>>
  /\ UNCHANGED <<running_executors, spc, response>>
  /\ UNCHANGED <<matchVars, storeVars, callerVars, hashVars, engineVars, execVars, cleanVars, workVars, profileVars>>

\* one task and its stream, with runs of any length, and the cancel endpoint
NextProgress ==
  \/ DOMAIN tasks = {} /\ CreateTaskStream
  \/ \E t \in TaskIds :
       \/ StreamProcessing(t) \/ StreamRegister(t) \/ StreamRaiseEarly(t)
       \/ StreamItemAny(t) \/ StreamCancelled(t) \/ StreamExhausted(t)
       \/ StreamCompleted(t) \/ StreamRaise(t) \/ StreamFinally(t)
       \/ cancel_task(t)

SpecProgress == InitTask /\ [][NextProgress]_vars

\* C20: cancel_task of a task that is completed or failed answers 400 and
\* leaves the task records as they are; cancel_task of an unknown id answers
\* 404 and changes no task.
C20_CancelRejected ==
  [][\A t \in TaskIds :
       last_req' = <<"cancel", t>> =>
         /\ t \notin DOMAIN tasks => (response' = 404 /\ tasks' = tasks)
         /\ (t \in DOMAIN tasks /\ tasks[t].status \in {"completed", "failed"})
              => (response' = 400 /\ tasks' = tasks)]_vars

\* a cancel of a completed task was answered 400 while another id is unknown
C20_Witness ==
  /\ last_req[1] = "cancel"
  /\ response = 400
  /\ last_req[2] \in DOMAIN tasks
  /\ tasks[last_req[2]].status \in {"completed", "failed"}
  /\ DOMAIN tasks # TaskIds

\* C21: a cancel_task of a task that is pending or processing leaves it
\* cancelled with completed_at set; when the task has an entry in
\* running_executors, the entry's cancellation event is set and, when the call
\* has returned, the task id is not a key of running_executors any more.
C21_CancelEffects ==
  [][\A t \in TaskIds :
       (/\ last_req' = <<"cancel", t>>
        /\ t \in DOMAIN tasks
        /\ tasks[t].status \in {"pending", "processing"})
         => /\ tasks'[t].status = "cancelled"
            /\ tasks'[t].completed_at
            /\ t \in DOMAIN running_executors
                 => /\ t \in DOMAIN running_executors' => running_executors'[t]
                    /\ t \notin DOMAIN running_executors']_vars

\* C27: a status cancelled, completed or failed is kept by every later step
\* of generate_progress_stream and of cancel_task.
C27_TerminalAbsorbing ==
  [][\A t \in DOMAIN tasks :
       tasks[t].status \in {"cancelled", "completed", "failed"}
         => tasks'[t].status = tasks[t].status]_vars

\* C30: in every step of a task's stream and of the cancel endpoint the
\* task's progress does not decrease and stays within 0..100, for runs of any
\* number of progress events; it becomes 100 only in the step taken when the
\* executor's run has ended with the cancellation event unset and without an
\* exception.
C30_ProgressBounded ==
  [][\A t \in DOMAIN tasks :
       /\ tasks'[t].progress >= tasks[t].progress
       /\ tasks'[t].progress \in 0..100
       /\ (tasks'[t].progress = 100 /\ tasks[t].progress # 100)
            => /\ spc[t] = "running"
               /\ ~running_executors[t]
               /\ spc'[t] = "finishing"]_vars

\* after many progress events the progress has stopped growing below 100
C30_Witness ==
  \E t \in DOMAIN tasks :
    /\ spc[t] = "running"
    /\ task_p[t] > 90
    /\ next_progress(task_p[t]) = task_p[t]
    /\ tasks[t].progress = task_p[t]

(***************************************************************************)
(* ColumnUtil.advanced_clean_text (extract/dataframe_mapping_extract.py)   *)
(***************************************************************************)
\* longest raw header of the enumeration
MaxTextLen == 4

\* A header is a sequence of characters, one of each class the patterns tell
\* apart: "a" a letter, "zh" a character of [一-鿿], " " a space,
\* "\n" one of \n \r \t, "(" and ")" brackets, "c1" a circled numeral,
\* "#" one of #@$%^&*
CleanAlphabet == {"a", "zh", " ", "\n", "(", ")", "c1", "#"}

\* text[:20]
FALLBACK_LEN == 20

\* re.sub(r'[\n\r\t]', ' ', s)
ControlToSpace(s) == [i \in 1..Len(s) |-> IF s[i] = "\n" THEN " " ELSE s[i]]

\* re.sub(r'\s+', ' ', s)
RECURSIVE CollapseSpace(_)
CollapseSpace(s) ==
  IF Len(s) <= 1 THEN s
  ELSE IF s[1] = " " /\ s[2] = " " THEN CollapseSpace(Tail(s))
  ELSE <<s[1]>> \o CollapseSpace(Tail(s))

\* re.sub(r'[...]', '', s) for a character class
RemoveClass(s, class) == SelectSeq(s, LAMBDA c : c \notin class)

\* clean_patterns applied in order
ApplyPatterns(s) ==
  RemoveClass(RemoveClass(RemoveClass(CollapseSpace(ControlToSpace(s)),
                                      {"(", ")"}), {"c1"}), {"#"})

\* length of the run of [一-鿿] that starts at position i
RECURSIVE HanRunAt(_, _)
HanRunAt(s, i) == IF i > Len(s) \/ s[i] # "zh" THEN 0 ELSE 1 + HanRunAt(s, i + 1)

\* max(re.findall(r'[一-鿿]+', text), key=len), <<>> when there is none
LongestHanRun(s) ==
  LET n == IF s = <<>> THEN 0
           ELSE CHOOSE m \in {HanRunAt(s, i) : i \in 1..Len(s)} :
                  \A i \in 1..Len(s) : HanRunAt(s, i) <= m
  IN [k \in 1..n |-> "zh"]

\* ColumnUtil.advanced_clean_text
advanced_clean_text(s) ==
  IF s = <<>> THEN <<>>
  ELSE LET c == ApplyPatterns(s)
       IN IF c # <<>> THEN c
          ELSE IF LongestHanRun(s) # <<>> THEN LongestHanRun(s)
          ELSE SubSeq(s, 1, IF Len(s) < FALLBACK_LEN THEN Len(s) ELSE FALLBACK_LEN)

\* the raw headers: every short one, and runs of symbols around FALLBACK_LEN
Texts ==
  UNION {[1..n -> CleanAlphabet] : n \in 0..MaxTextLen}
    \cup {[k \in 1..n |-> "#"] : n \in (FALLBACK_LEN - 1)..(FALLBACK_LEN + 1)}

InitClean ==
  /\ MatchUnused
  /\ ProfileUnused
  /\ WorkUnused
  /\ StoreUnused
  /\ CallersUnused
  /\ HashUnused
  /\ EngineUnused
  /\ ExecUnused
  /\ TaskUnused
  /\ text \in Texts
  /\ cleaned = <<>>
  /\ cleaned_again = <<>>
  /\ clpc = "input"

\* _clean_columns: advanced_clean_text(c) for a column c
CleanOnce ==
  /\ clpc = "input"
  /\ cleaned' = advanced_clean_text(text)
  /\ clpc' = "once"
  /\ UNCHANGED <<text, cleaned_again>>
  /\ UNCHANGED <<matchVars, storeVars, callerVars, hashVars, engineVars, execVars, taskVars, workVars, profileVars>>

\* the cleaned header is cleaned again
CleanTwice ==
  /\ clpc = "once"
  /\ cleaned_again' = advanced_clean_text(cleaned)
  /\ clpc' = "twice"
  /\ UNCHANGED <<text, cleaned>>
  /\ UNCHANGED <<matchVars, storeVars, callerVars, hashVars, engineVars, execVars, taskVars, workVars, profileVars>>

NextClean == CleanOnce \/ CleanTwice

SpecClean == InitClean /\ [][NextClean]_vars

\* C16: clean is idempotent: cleaning a cleaned header gives the cleaned
\* header back.
C16_CleanIdempotent == clpc = "twice" => cleaned_again = cleaned

\* the raw header without each "(" up to the first ")" after it
RECURSIVE WithoutBracketContent(_)
WithoutBracketContent(s) ==
  IF s = <<>> THEN <<>>
  ELSE IF s[1] = "(" /\ \E j \in 2..Len(s) : s[j] = ")"
       THEN LET j == CHOOSE k \in 2..Len(s) :
                       s[k] = ")" /\ \A l \in 2..(k - 1) : s[l] # ")"
            IN WithoutBracketContent(SubSeq(s, j + 1, Len(s)))
       ELSE <<s[1]>> \o WithoutBracketContent(Tail(s))

Letters(s) == SelectSeq(s, LAMBDA c : c \in {"a", "zh"})

\* C17: the cleaned header holds no control character, bracket, circled
\* numeral or symbol and none of the text between brackets; when the
\* stripping leaves nothing it is the longest run of CJK characters of the
\* raw header, or else the first 20 characters of the raw header.
C17_CleanedContents ==
  clpc # "input" =>
    IF ApplyPatterns(text) # <<>>
    THEN /\ \A i \in 1..Len(cleaned) : cleaned[i] \notin {"\n", "(", ")", "c1", "#"}
         /\ Letters(cleaned) = Letters(WithoutBracketContent(text))
    ELSE IF LongestHanRun(text) # <<>> THEN cleaned = LongestHanRun(text)
    ELSE cleaned = SubSeq(text, 1, IF Len(text) < 20 THEN Len(text) ELSE 20)

(***************************************************************************)
(* Properties of the matcher over thresholds                               *)
(***************************************************************************)
\* the result of normalize on the inputs of this state at threshold c
MatchAt(c) ==
  _contextual_reassessment(
    standard_headers,
    semantic_similarity(standard_headers, standard_header_index, sim, input_headers, c))

\* targets with a matched input
NonNullCount(n) == Cardinality({i \in 1..Len(n) : n[i][2] # None})

\* C18: for the schema, input headers and similarities of one call, a higher
\* min_confidence never gives more targets a matched input.
C18_ThresholdMonotone ==
  mpc = "done" =>
    /\ normalized = MatchAt(min_confidence)
    /\ \A c2 \in Scores :
         c2 >= min_confidence => NonNullCount(MatchAt(c2)) <= NonNullCount(normalized)

\* a call where the rise of the threshold removes one match and keeps another
C18_Witness ==
  /\ mpc = "done"
  /\ min_confidence = 1
  /\ NonNullCount(normalized) = NumStd
  /\ NonNullCount(MatchAt(MaxScore)) = 1

\* the candidate triples of the call, and those the greedy pass assigned
Candidates ==
  CandidateList(std_to_input_sim(standard_header_index, sim, input_headers),
                Len(input_headers), min_confidence)
AssignedPairs == GreedyPairs(SortDesc(Candidates), {}, {})
CandidateSet == {Candidates[i] : i \in 1..Len(Candidates)}

\* C24: in the result of semantic_similarity the assigned pairs are the
\* entries with an input; when some pair scores at least min_confidence, a
\* pair of the highest score is assigned; every pair scoring at least
\* min_confidence that is not assigned shares its target or its input column
\* with an assigned pair of greater or equal score.
C24_GreedyBlocked ==
  mpc = "done" =>
    /\ \A std \in 1..NumStd :
         IF \E a \in AssignedPairs : a[2] = std
         THEN \E a \in AssignedPairs :
                /\ a[2] = std
                /\ mapping[std] = <<standard_headers[std], input_headers[a[3]], a[1]>>
         ELSE mapping[std] = <<standard_headers[std], None, 0>>
    /\ CandidateSet # {} =>
         \E a \in AssignedPairs : \A c \in CandidateSet : c[1] <= a[1]
    /\ \A c \in CandidateSet \ AssignedPairs :
         \E a \in AssignedPairs :
           /\ a[1] >= c[1]
           /\ a[2] = c[2] \/ a[3] = c[3]

\* a call in which the pair first in loop order scores less than a pair of
\* the same target, which is assigned, and a third pair is blocked by its
\* input column only
C24_Witness ==
  /\ mpc = "done"
  /\ Len(input_headers) >= 2
  /\ \E a \in AssignedPairs :
       /\ a[2] = 1
       /\ a[3] # 1
       /\ <<a[1] - 1, 1, 1>> \in CandidateSet
  /\ \E c \in CandidateSet \ AssignedPairs :
       /\ \A a \in AssignedPairs : a[2] # c[2]
       /\ \E a \in AssignedPairs : a[3] = c[3] /\ a[1] >= c[1]

\* the header texts of a sequence of headers, and those a target is matched to
TextsOf(headers) == {headers[i] : i \in 1..Len(headers)}
MatchedTexts == {normalized[h][2] : h \in 1..Len(normalized)} \ {None}

\* C25: in the output of normalize a target without an input has confidence
\* 0, a target with an input has a confidence of at least min_confidence and
\* its input is one of the input headers, and the unmatched list holds
\* exactly the input headers that are the input of no target, in input order.
C25_OutputShape ==
  mpc = "done" =>
    /\ \A h \in 1..Len(normalized) :
         IF normalized[h][2] = None
         THEN normalized[h][3] = 0
         ELSE /\ normalized[h][3] >= min_confidence
              /\ normalized[h][2] \in TextsOf(input_headers)
    /\ TextsOf(unmatched) = TextsOf(input_headers) \ MatchedTexts
    /\ unmatched = SelectSeq(input_headers, LAMBDA x : x \notin MatchedTexts)

\* a call that leaves the first target without an input and the second with
\* one, reports an unmatched header, and in which the reassessment took a
\* match of the greedy pass away
C25_Witness ==
  /\ mpc = "done"
  /\ normalized[1][2] = None
  /\ normalized[2][2] # None
  /\ unmatched # <<>>
  /\ mapping # normalized

(***************************************************************************)
(* DataFrameMappingExtract.distinguish_work_type                           *)
(***************************************************************************)
\* longest sheet name of the enumeration
MaxNameLen == 4

\* A sheet name is a sequence of characters: "ru" 入, "li" 离, "zhi" 职,
\* "jian" 减, "zeng" 增, "yuan" 员, "x" any other character
NameAlphabet == {"ru", "li", "zhi", "jian", "zeng", "yuan", "x"}

SheetNames == UNION {[1..n -> NameAlphabet] : n \in 0..MaxNameLen}

\* w in sheet_name
Contains(name, w) ==
  \E i \in 1..(Len(name) - Len(w) + 1) : SubSeq(name, i, i + Len(w) - 1) = w

\* normalized: (std_header, input_header, score) for a target that is neither
\* date, then for 入职日期 and 离职日期 when the schema holds them
NormalizedOf(join, leave) ==
  <<<<"other", "h0", 1>>>>
    \o (IF join = "absent" THEN <<>>
        ELSE <<<<"join_date", IF join = "matched" THEN "h1" ELSE None,
                 IF join = "matched" THEN 1 ELSE 0>>>>)
    \o (IF leave = "absent" THEN <<>>
        ELSE <<<<"leave_date", IF leave = "matched" THEN "h2" ELSE None,
                 IF leave = "matched" THEN 1 ELSE 0>>>>)

NormalizedLists ==
  {NormalizedOf(j, l) : j, l \in {"absent", "none", "matched"}}

\* distinguish_work_type that looks for the join cues first
DistinguishJoinFirst(norm, name) ==
  IF ~Contains(name, <<"ru", "li", "zhi">>)
       /\ (Contains(name, <<"ru", "zhi">>) \/ Contains(name, <<"zeng", "yuan">>))
  THEN "join"
  ELSE IF ~Contains(name, <<"ru", "li", "zhi">>)
            /\ (Contains(name, <<"li", "zhi">>) \/ Contains(name, <<"jian", "yuan">>))
  THEN "leave"
  ELSE LET has_join_date == \E i \in 1..Len(norm) :
                              norm[i][1] = "join_date" /\ norm[i][2] # None
           has_leave_date == \E i \in 1..Len(norm) :
                               norm[i][1] = "leave_date" /\ norm[i][2] # None
       IN IF has_join_date /\ ~has_leave_date THEN "join"
          ELSE IF ~has_join_date /\ has_leave_date THEN "leave"
          ELSE IF has_join_date /\ has_leave_date THEN "case"
          ELSE "empty"

\* distinguish_work_type: "leave" is '离职' as "作业", "join" is '入职' as "作业",
\* "case" the case expression over the two dates, "empty" '' as "作业"
distinguish_work_type(norm, name) ==
  IF ~Contains(name, <<"ru", "li", "zhi">>)
       /\ (Contains(name, <<"li", "zhi">>) \/ Contains(name, <<"jian", "yuan">>))
  THEN "leave"
  ELSE IF ~Contains(name, <<"ru", "li", "zhi">>)
            /\ (Contains(name, <<"ru", "zhi">>) \/ Contains(name, <<"zeng", "yuan">>))
  THEN "join"
  ELSE LET has_join_date == \E i \in 1..Len(norm) :
                              norm[i][1] = "join_date" /\ norm[i][2] # None
           has_leave_date == \E i \in 1..Len(norm) :
                               norm[i][1] = "leave_date" /\ norm[i][2] # None
       IN IF has_join_date /\ ~has_leave_date THEN "join"
          ELSE IF ~has_join_date /\ has_leave_date THEN "leave"
          ELSE IF has_join_date /\ has_leave_date THEN "case"
          ELSE "empty"

InitWork ==
  /\ MatchUnused
  /\ ProfileUnused
  /\ StoreUnused
  /\ CallersUnused
  /\ HashUnused
  /\ EngineUnused
  /\ ExecUnused
  /\ TaskUnused
  /\ CleanUnused
  /\ sheet_name \in SheetNames
  /\ wt_normalized \in NormalizedLists
  /\ work_type = "none"
  /\ wpc = "input"

\* make_sql: select_columns = [self.distinguish_work_type(normalized, sheet_name)]
make_sql ==
  /\ wpc = "input"
  /\ work_type' = distinguish_work_type(wt_normalized, sheet_name)
  /\ wpc' = "done"
  /\ UNCHANGED <<sheet_name, wt_normalized>>
  /\ UNCHANGED <<matchVars, storeVars, callerVars, hashVars, engineVars, execVars,
                 taskVars, cleanVars, profileVars>>

NextWork == make_sql

SpecWork == InitWork /\ [][NextWork]_vars

\* the cues of a sheet name, and the dates resolved to an input column
BothWays == Contains(sheet_name, <<"ru", "li", "zhi">>)
LeaveCue == Contains(sheet_name, <<"li", "zhi">>) \/ Contains(sheet_name, <<"jian", "yuan">>)
JoinCue == Contains(sheet_name, <<"ru", "zhi">>) \/ Contains(sheet_name, <<"zeng", "yuan">>)
Resolved(target) ==
  \E i \in 1..Len(wt_normalized) :
    wt_normalized[i][1] = target /\ wt_normalized[i][2] # None

\* C19: without the marker 入离职, a name with 离职 or 减员 gives the constant
\* 离职 and otherwise a name with 入职 or 增员 gives the constant 入职, whatever
\* was matched; in every other case the resolved dates decide: only 入职日期
\* gives 入职, only 离职日期 gives 离职, both give the case expression, none
\* gives the empty string.
C19_WorkTypeRule ==
  wpc = "done" =>
    /\ (~BothWays /\ LeaveCue) => work_type = "leave"
    /\ (~BothWays /\ ~LeaveCue /\ JoinCue) => work_type = "join"
    /\ (BothWays \/ (~LeaveCue /\ ~JoinCue)) =>
         /\ (Resolved("join_date") /\ ~Resolved("leave_date")) => work_type = "join"
         /\ (~Resolved("join_date") /\ Resolved("leave_date")) => work_type = "leave"
         /\ (Resolved("join_date") /\ Resolved("leave_date")) => work_type = "case"
         /\ (~Resolved("join_date") /\ ~Resolved("leave_date")) => work_type = "empty"

\* a name with both a leave cue and a join cue, with only 入职日期 resolved,
\* was given the constant 离职
C19_Witness ==
  /\ wpc = "done"
  /\ ~BothWays /\ LeaveCue /\ JoinCue
  /\ Resolved("join_date") /\ ~Resolved("leave_date")
  /\ work_type = "leave"

(***************************************************************************)
(* Profiles (config/profile_manager.py, config/config_db.py)               *)
(***************************************************************************)
\* most rows of the table profile
MaxProfiles == 3
\* most rows of the table info_item
MaxItems == 3

ProfileNames == {"Default", "n1", "n2"}
SortNos == {1, 2}

\* ids of the rows of info_item whose profile_id is pid
ItemsOf(table, pid) == {i \in 1..Len(table) : table[i].profile_id = pid}

\* ORDER BY sort_no: the rows S in an order of non-decreasing sort_no (the
\* order of rows of equal sort_no is left to the database)
OrderedBy(table, S) ==
  {q \in [1..Cardinality(S) -> S] :
     /\ \A a, b \in 1..Cardinality(S) : a # b => q[a] # q[b]
     /\ \A a, b \in 1..Cardinality(S) : a < b => table[q[a]].sort_no <= table[q[b]].sort_no}

\* a get_info_items without the WHERE clause
GetAllInfoItems(table, active) == OrderedBy(table, 1..Len(table))

\* ConfigDB.get_info_items: SELECT ... WHERE profile_id = ? ORDER BY sort_no
get_info_items(table, active) == OrderedBy(table, ItemsOf(table, active))

\* ConfigDB.add_item: INSERT ... profile_id = self.active_profile_id
add_item(table, active, sort_no) ==
  Append(table, [sort_no |-> sort_no, profile_id |-> active])

\* ConfigDB.get_profile_by_id: the row, None when there is none
get_profile_by_id(table, profile_id) ==
  IF profile_id \in 1..Len(table) THEN table[profile_id] ELSE None

\* ConfigDB.get_available_profiles: the names of all rows
get_available_profiles(table) == {table[i] : i \in 1..Len(table)}

\* ConfigDB.create_profile: INSERT INTO profile; the new row's id is returned
ConfigDB_create_profile(table, name) == Append(table, name)

\* ConfigDB.set_active_profile
set_active_profile(db, profile_id) == [db EXCEPT !.active_profile_id = profile_id]

\* ProfileManager("./config/standard.db"): the migrated database holds the
\* default profile with id 1, and the items configured for it
InitProfile ==
  /\ MatchUnused
  /\ WorkUnused
  /\ CleanUnused
  /\ TaskUnused
  /\ ExecUnused
  /\ StoreUnused
  /\ CallersUnused
  /\ HashUnused
  /\ EngineUnused
  /\ profile = <<"Default">>
  /\ info_item \in {<<>>, <<[sort_no |-> 1, profile_id |-> 1]>>}
  /\ added_under = [i \in 1..Len(info_item) |-> 1]
  /\ config_db = [active_profile_id |-> 1]
  /\ _current_profile_id = 1
  /\ pm_last = NoCall

\* profile_manager.get_config_db().get_info_items()
GetInfoItems ==
  /\ \E items \in get_info_items(info_item, config_db.active_profile_id) :
       pm_last' = [NoCall EXCEPT !.op = "get_info_items", !.items = items]
  /\ UNCHANGED <<profile, info_item, config_db, _current_profile_id, added_under>>
  /\ UNCHANGED <<matchVars, storeVars, callerVars, hashVars, engineVars, execVars, taskVars, cleanVars, workVars>>

\* profile_manager.get_config_db().add_item(new_item)
AddItem ==
  /\ Len(info_item) < MaxItems
  /\ \E sort_no \in SortNos :
       info_item' = add_item(info_item, config_db.active_profile_id, sort_no)
  /\ added_under' = Append(added_under, _current_profile_id)
  /\ pm_last' = [NoCall EXCEPT !.op = "add_item", !.returned = Len(info_item) + 1]
  /\ UNCHANGED <<profile, config_db, _current_profile_id>>
  /\ UNCHANGED <<matchVars, storeVars, callerVars, hashVars, engineVars, execVars, taskVars, cleanVars, workVars>>

\* a switch_profile that does not look the profile up
SwitchUnchecked(profile_id) ==
  /\ config_db' = set_active_profile(config_db, profile_id)
  /\ _current_profile_id' = profile_id
  /\ pm_last' = [NoCall EXCEPT !.op = "switch_profile", !.profile_id = profile_id,
                               !.returned = 1]
  /\ UNCHANGED <<profile, info_item, added_under>>
  /\ UNCHANGED <<matchVars, storeVars, callerVars, hashVars, engineVars, execVars, taskVars, cleanVars, workVars>>

\* ProfileManager.switch_profile (returned: 1 for True, 0 for False)
switch_profile(profile_id) ==
  /\ IF get_profile_by_id(profile, profile_id) = None
     THEN /\ pm_last' = [NoCall EXCEPT !.op = "switch_profile",
                                       !.profile_id = profile_id, !.returned = 0]
          /\ UNCHANGED <<config_db, _current_profile_id>>
     ELSE /\ config_db' = set_active_profile(config_db, profile_id)
          /\ _current_profile_id' = profile_id
          /\ pm_last' = [NoCall EXCEPT !.op = "switch_profile",
                                       !.profile_id = profile_id, !.returned = 1]
  /\ UNCHANGED <<profile, info_item, added_under>>
  /\ UNCHANGED <<matchVars, storeVars, callerVars, hashVars, engineVars, execVars, taskVars, cleanVars, workVars>>

\* ProfileManager.create_profile (returned: the new id, -1 when ValueError
\* is raised)
create_profile(name) ==
  /\ Len(profile) < MaxProfiles \/ name \in get_available_profiles(profile)
  /\ IF name \in get_available_profiles(profile)
     THEN /\ pm_last' = [NoCall EXCEPT !.op = "create_profile", !.name = name,
                                       !.returned = -1]
          /\ UNCHANGED profile
     ELSE /\ profile' = ConfigDB_create_profile(profile, name)
          /\ pm_last' = [NoCall EXCEPT !.op = "create_profile", !.name = name,
                                       !.returned = Len(profile) + 1]
  /\ UNCHANGED <<info_item, config_db, _current_profile_id, added_under>>
  /\ UNCHANGED <<matchVars, storeVars, callerVars, hashVars, engineVars, execVars, taskVars, cleanVars, workVars>>

NextProfile ==
  \/ GetInfoItems
  \/ AddItem
  \/ \E profile_id \in 1..(MaxProfiles + 1) : switch_profile(profile_id)
  \/ \E name \in ProfileNames : create_profile(name)

SpecProfile == InitProfile /\ [][NextProfile]_vars

\* C22: get_info_items returns exactly the rows whose profile_id is the
\* active profile, every row it returns was added while that profile was
\* active, and a switch_profile or create_profile leaves the rows of every
\* profile as they were, so that switching away and back returns the same
\* items.
C22_ProfilesIsolated ==
  [][/\ pm_last'.op = "get_info_items" =>
          /\ {pm_last'.items[i] : i \in 1..Len(pm_last'.items)}
               = ItemsOf(info_item, _current_profile_id)
          /\ Len(pm_last'.items) = Cardinality(ItemsOf(info_item, _current_profile_id))
          /\ \A i \in 1..Len(pm_last'.items) :
               added_under[pm_last'.items[i]] = _current_profile_id
     /\ pm_last'.op \in {"switch_profile", "create_profile"} =>
          /\ info_item' = info_item
          /\ \A pid \in 1..MaxProfiles :
               get_info_items(info_item', pid) = get_info_items(info_item, pid)
     /\ pm_last'.op = "add_item" =>
          \A pid \in 1..MaxProfiles :
            pid # _current_profile_id => ItemsOf(info_item', pid) = ItemsOf(info_item, pid)]_vars

\* get_info_items has returned two items of the default profile, one of them
\* added, after items were added under another profile
C22_Witness ==
  /\ pm_last.op = "get_info_items"
  /\ _current_profile_id = 1
  /\ Len(pm_last.items) = 2
  /\ \E i \in 1..Len(info_item) : info_item[i].profile_id # 1
  /\ Len(profile) >= 2

\* the current profile of the ProfileManager is the active profile of its
\* ConfigDB and a row of the table profile
CurrentProfileExists ==
  /\ _current_profile_id = config_db.active_profile_id
  /\ _current_profile_id \in 1..Len(profile)

\* C23: after every call the current profile id of the ProfileManager equals
\* the active_profile_id of its ConfigDB and is the id of a row of profile; a
\* switch_profile to an existing id returns True and makes it current, to a
\* missing id returns False and changes nothing; a create_profile with a
\* name in use raises and changes neither the table nor the current profile.
C23_CurrentProfileExists ==
  [][/\ CurrentProfileExists'
     /\ pm_last'.op = "switch_profile" =>
          IF get_profile_by_id(profile, pm_last'.profile_id) # None
          THEN /\ pm_last'.returned = 1
               /\ _current_profile_id' = pm_last'.profile_id
               /\ config_db'.active_profile_id = pm_last'.profile_id
          ELSE /\ pm_last'.returned = 0
               /\ UNCHANGED <<profile, info_item, config_db, _current_profile_id>>
     /\ (pm_last'.op = "create_profile"
           /\ pm_last'.name \in get_available_profiles(profile)) =>
          /\ pm_last'.returned = -1
          /\ UNCHANGED <<profile, info_item, config_db, _current_profile_id>>]_vars

\* a create_profile with a used name has raised after a switch to a created
\* profile
C23_Witness ==
  /\ pm_last.op = "create_profile"
  /\ pm_last.returned = -1
  /\ _current_profile_id = 2
  /\ Len(profile) = 2

====
